---- MODULE Spec2Model ----
(***************************************************************************)
(* ForCard: the turn-resolution engine (GameManager), the grid (Board,     *)
(* Cell), the player hands (Player) and the card effects (ColorCard,       *)
(* FortCard, SpecialCard and their subclasses).                            *)
(*                                                                         *)
(* A position is the pair <<x, y>>.  A board is a function from the        *)
(* positions of the grid to stabilities.  A selection is a record          *)
(* [cardId, pos]; "no selection" (null) is the record NullSel.             *)
(* Math.random() is a nondeterministic choice.                             *)
(***************************************************************************)
EXTENDS Integers, Sequences, FiniteSets, TLC

\* ------------------------------------------------------------------ bounds
BoardSize == 2
TotalTurns == 3

\* ------------------------------------------------------- program constants
MaxStability == 5
PenaltyCount == 3
BombDelay == 2
ReversalMargin == 3
AwakenTurns == 4
DoubleActionPlays == 2

Players == {"A", "B"}
Opponent(p) == IF p = "A" THEN "B" ELSE "A"
Sign(p) == IF p = "A" THEN 1 ELSE -1

Max2(a, b) == IF a >= b THEN a ELSE b
Min2(a, b) == IF a <= b THEN a ELSE b
Abs(v) == IF v < 0 THEN -v ELSE v

\* ------------------------------------------------------------------- Cell
\* the value stored as given (not what the engine does)
ClipNone(v) == v
\* Cell.setStability: the value is clipped to [-5, 5]
Clip(v) == Max2(-MaxStability, Min2(MaxStability, v))

\* Cell.owner
Owner(s) == IF s > 0 THEN "A" ELSE IF s < 0 THEN "B" ELSE "none"
IsOwnedBy(s, p) == Owner(s) = p
IsOwnedByEnemy(s, p) == Owner(s) # "none" /\ Owner(s) # p
IsNeutral(s) == Owner(s) = "none"

\* ------------------------------------------------------------------ Board
Positions == (0 .. BoardSize - 1) \X (0 .. BoardSize - 1)
EmptyBoard == [q \in Positions |-> 0]

\* Board.isValidPosition / Board.getCell (null when out of range)
IsValidPosition(b, pos) == pos \in DOMAIN b
\* Board.getSize
SizeOf(b) == CHOOSE n \in 1 .. 8 : <<n - 1, 0>> \in DOMAIN b /\ <<n, 0>> \notin DOMAIN b

\* cell.setStability(v) on board.getCell(pos), nothing when the cell is null
SetAt(b, pos, v) == IF IsValidPosition(b, pos) THEN [b EXCEPT ![pos] = Clip(v)] ELSE b
\* cell.addStability(d)
AddAt(b, pos, d) == IF IsValidPosition(b, pos) THEN [b EXCEPT ![pos] = Clip(@ + d)] ELSE b
\* cell.reset()
ResetAt(b, pos) == IF IsValidPosition(b, pos) THEN [b EXCEPT ![pos] = 0] ELSE b

\* for (const pos of positions) cell.addStability(delta)
RECURSIVE AddSeq(_, _, _)
AddSeq(b, seq, d) ==
  IF seq = <<>> THEN b ELSE AddSeq(AddAt(b, Head(seq), d), Tail(seq), d)

SeqToSet(seq) == {seq[i] : i \in 1 .. Len(seq)}

\* the cells in the scan order of "for y ... for x ..."
ScanOrder(b) ==
  [i \in 1 .. (SizeOf(b) * SizeOf(b)) |-> <<(i - 1) % SizeOf(b), (i - 1) \div SizeOf(b)>>]

Up(pos) == <<pos[1], pos[2] - 1>>
Down(pos) == <<pos[1], pos[2] + 1>>
Left(pos) == <<pos[1] - 1, pos[2]>>
Right(pos) == <<pos[1] + 1, pos[2]>>

OwnedValid(b, pos, p) == IsValidPosition(b, pos) /\ IsOwnedBy(b[pos], p)

\* Board.getConnectedRegions: breadth-first search from each unvisited owned
\* cell in scan order; the neighbours are visited up, down, left, right.
RECURSIVE BfsNeighbours(_, _, _, _, _)
BfsNeighbours(b, p, ns, queue, visited) ==
  IF ns = <<>> THEN [queue |-> queue, visited |-> visited]
  ELSE LET n == Head(ns) IN
       IF n \notin visited /\ OwnedValid(b, n, p)
       THEN BfsNeighbours(b, p, Tail(ns), Append(queue, n), visited \cup {n})
       ELSE BfsNeighbours(b, p, Tail(ns), queue, visited)

\* a search that looks only at the upper and lower neighbour (not what the
\* board does)
RECURSIVE BfsUpDown(_, _, _, _, _)
BfsUpDown(b, p, queue, visited, region) ==
  IF queue = <<>> THEN [region |-> region, visited |-> visited]
  ELSE LET pos == Head(queue)
           r == BfsNeighbours(b, p, <<Up(pos), Down(pos)>>, Tail(queue), visited)
       IN BfsUpDown(b, p, r.queue, r.visited, Append(region, pos))

RECURSIVE Bfs(_, _, _, _, _)
Bfs(b, p, queue, visited, region) ==
  IF queue = <<>> THEN [region |-> region, visited |-> visited]
  ELSE LET pos == Head(queue)
           r == BfsNeighbours(b, p, <<Up(pos), Down(pos), Left(pos), Right(pos)>>,
                              Tail(queue), visited)
       IN Bfs(b, p, r.queue, r.visited, Append(region, pos))

RECURSIVE RegionScan(_, _, _, _, _)
RegionScan(b, p, cells, visited, regions) ==
  IF cells = <<>> THEN regions
  ELSE LET c == Head(cells) IN
       IF ~OwnedValid(b, c, p) \/ c \in visited
       THEN RegionScan(b, p, Tail(cells), visited, regions)
       ELSE LET r == Bfs(b, p, <<c>>, visited \cup {c}, <<>>)
            IN RegionScan(b, p, Tail(cells), r.visited, Append(regions, r.region))

GetConnectedRegions(b, p) == RegionScan(b, p, ScanOrder(b), {}, <<>>)

\* the first region holding pos, or the empty sequence
RegionOf(b, pos, p) ==
  LET rs == GetConnectedRegions(b, p)
      hit == {i \in 1 .. Len(rs) : pos \in SeqToSet(rs[i])}
  IN IF hit = {} THEN <<>> ELSE rs[CHOOSE i \in hit : \A j \in hit : i <= j]

\* ------------------------------------------------------------------ cards
ColorCards == {"C01", "C06", "C09", "C13"}
FortCards == {"F01", "F03", "F09", "F12"}
SpecialCards == {"S01", "S02", "S03", "S04", "S05", "S06", "S07", "S08", "S09", "S10"}
AllCards == ColorCards \cup FortCards \cup SpecialCards
NoCard == "none"

\* Card.getType
GetType(c) ==
  IF c \in ColorCards THEN "color" ELSE IF c \in FortCards THEN "fort" ELSE "special"

\* id.startsWith('C')
StartsWithC(c) == c \in ColorCards

\* ColorCard.getPower / FortCard.getPower: the power given to super(...)
GetPower(c) == IF c \in {"F01", "F09"} THEN 2 ELSE 1

IsCorner(b, pos) ==
  \/ pos[1] = 0 /\ pos[2] = 0
  \/ pos[1] = 0 /\ pos[2] = SizeOf(b) - 1
  \/ pos[1] = SizeOf(b) - 1 /\ pos[2] = 0
  \/ pos[1] = SizeOf(b) - 1 /\ pos[2] = SizeOf(b) - 1

\* canPlay of each card class
CanPlay(c, b, pos, p) ==
  CASE c \in {"F01", "S03"} -> OwnedValid(b, pos, p)
    [] c = "C06" -> IsCorner(b, pos)
    [] c = "S02" -> TRUE
    [] c = "S08" -> IsValidPosition(b, pos) /\ (IsNeutral(b[pos]) \/ IsOwnedByEnemy(b[pos], p))
    [] OTHER -> IsValidPosition(b, pos)

\* C06_Corner3.getTargetPositions
C06Targets(b, pos) ==
  LET n == SizeOf(b)
      raw == IF pos[1] = 0 /\ pos[2] = 0 THEN <<pos, <<1, 0>>, <<0, 1>>>>
             ELSE IF pos[1] = 0 /\ pos[2] = n - 1 THEN <<pos, <<1, n - 1>>, <<0, n - 2>>>>
             ELSE IF pos[1] = n - 1 /\ pos[2] = 0 THEN <<pos, <<n - 2, 0>>, <<n - 1, 1>>>>
             ELSE IF pos[1] = n - 1 /\ pos[2] = n - 1
                  THEN <<pos, <<n - 2, n - 1>>, <<n - 1, n - 2>>>>
             ELSE <<pos>>
  IN SelectSeq(raw, LAMBDA q : IsValidPosition(b, q))

\* the 3x3 block around pos, dy outer and dx inner, valid positions only
Block3x3(b, pos) ==
  SelectSeq([i \in 1 .. 9 |-> <<pos[1] + ((i - 1) % 3) - 1, pos[2] + ((i - 1) \div 3) - 1>>],
            LAMBDA q : IsValidPosition(b, q))

\* every cell owned by p, in scan order (F08 / F09 getTargetPositions)
AllOwn(b, p) == SelectSeq(ScanOrder(b), LAMBDA q : IsOwnedBy(b[q], p))
AllEnemy(b, p) == SelectSeq(ScanOrder(b), LAMBDA q : IsOwnedByEnemy(b[q], p))

\* getTargetPositions of each card class (options carry no rotation or
\* direction for the cards modelled here)
GetTargetPositions(c, b, pos, p) ==
  CASE c = "C06" -> C06Targets(b, pos)
    [] c = "C13" -> SelectSeq(<<Left(pos), pos, Right(pos)>>, LAMBDA q : IsValidPosition(b, q))
    [] c = "F01" -> IF OwnedValid(b, pos, p) THEN <<pos>> ELSE <<>>
    [] c = "F03" -> SelectSeq(<<pos, Up(pos), Down(pos), Left(pos), Right(pos)>>,
                              LAMBDA q : OwnedValid(b, q, p))
    [] c = "F09" -> AllOwn(b, p)
    [] c \in {"F12", "S09"} -> RegionOf(b, pos, p)
    [] c = "S07" -> Block3x3(b, pos)
    [] OTHER -> <<pos>>

\* ColorCard.applyEffect / FortCard.applyEffect
BaseApplyEffect(c, b, pos, p) ==
  AddSeq(b, GetTargetPositions(c, b, pos, p), Sign(p) * GetPower(c))

\* C09_EnemyReduce.applyEffect
C09ApplyEffect(b, pos, p) ==
  IF ~IsValidPosition(b, pos) THEN b
  ELSE IF IsOwnedByEnemy(b[pos], p)
       THEN (IF p = "A" THEN SetAt(b, pos, Min2(0, b[pos] + 2))
                        ELSE SetAt(b, pos, Max2(0, b[pos] - 2)))
       ELSE AddAt(b, pos, Sign(p))

\* F09_AllOwnSuperBoost.applyEffect: own cells +2, then the cells that are
\* enemy cells after that, +1 toward neutral
F09ApplyEffect(b, pos, p) ==
  LET b1 == AddSeq(b, GetTargetPositions("F09", b, pos, p), Sign(p) * 2)
  IN AddSeq(b1, AllEnemy(b1, p), Sign(p))

\* card.applyEffect for a color card or a fort card
ApplyEffect(c, b, pos, p) ==
  CASE c = "C09" -> C09ApplyEffect(b, pos, p)
    [] c = "F09" -> F09ApplyEffect(b, pos, p)
    [] OTHER -> BaseApplyEffect(c, b, pos, p)

\* ---------------------------------------------------------- special cards
\* a reversal that flips only the cells of the player who plays it
S01ApplyEffectOwnOnly(b, pos, p, currentTurn, totalTurns) ==
  IF currentTurn <= totalTurns - ReversalMargin
  THEN [q \in DOMAIN b |-> IF IsOwnedBy(b[q], p) THEN Clip(-b[q]) ELSE b[q]]
  ELSE AddAt(b, pos, Sign(p))

\* S01_ReversalField.applyEffect
S01ApplyEffect(b, pos, p, currentTurn, totalTurns) ==
  IF currentTurn <= totalTurns - ReversalMargin
  THEN [q \in DOMAIN b |-> IF b[q] # 0 THEN Clip(-b[q]) ELSE b[q]]
  ELSE AddAt(b, pos, Sign(p))

\* S02_FocusShift.applyEffect; lastCard is NoCard and lastPos is NoPos when
\* the option is absent
NoPos == <<-9, -9>>
S02ApplyEffect(b, pos, p, lastCard, lastPos) ==
  IF lastCard = NoCard \/ lastPos = NoPos
  THEN AddAt(b, pos, Sign(p))
  ELSE AddSeq(b, GetTargetPositions(lastCard, b, lastPos, p), Sign(p) * GetPower(lastCard))

\* S03_Overload.applyEffect
S03ApplyEffect(b, pos, p) ==
  AddSeq(SetAt(b, pos, Sign(p) * 5), <<Up(pos), Down(pos), Left(pos), Right(pos)>>, -Sign(p))

\* S07_TimeBomb.explode
RECURSIVE ExplodeSeq(_, _, _)
ExplodeSeq(b, seq, p) ==
  IF seq = <<>> THEN b
  ELSE LET q == Head(seq)
           b1 == IF IsOwnedBy(b[q], p) THEN AddAt(b, q, Sign(p) * 2)
                 ELSE IF IsOwnedByEnemy(b[q], p) THEN AddAt(b, q, Sign(p))
                 ELSE b
       IN ExplodeSeq(b1, Tail(seq), p)

Explode(b, pos, p) == ExplodeSeq(b, GetTargetPositions("S07", b, pos, p), p)

\* S08_SacrificeSwap.applyEffect
RECURSIVE S08Sacrifice(_, _, _, _)
S08Sacrifice(b, seq, p, total) ==
  IF seq = <<>> THEN [board |-> b, total |-> total]
  ELSE IF OwnedValid(b, Head(seq), p)
       THEN S08Sacrifice(ResetAt(b, Head(seq)), Tail(seq), p, total + Abs(b[Head(seq)]))
       ELSE S08Sacrifice(b, Tail(seq), p, total)

RECURSIVE S08Overflow(_, _, _, _)
S08Overflow(b, seq, p, remaining) ==
  IF seq = <<>> \/ remaining <= 0 THEN b
  ELSE IF IsValidPosition(b, Head(seq))
       THEN LET b1 == AddAt(b, Head(seq), Sign(p))
            IN S08Overflow(b1, Tail(seq), p,
                           IF Abs(b1[Head(seq)]) > Abs(b[Head(seq)]) THEN remaining - 1
                           ELSE remaining)
       ELSE S08Overflow(b, Tail(seq), p, remaining)

S08ApplyEffect(b, pos, p, sacrificePositions) ==
  LET s == S08Sacrifice(b, sacrificePositions, p, 0) IN
  IF ~IsValidPosition(b, pos) \/ s.total <= 0 THEN s.board
  ELSE LET cur == s.board[pos]
           new == IF p = "A" THEN Min2(5, cur + s.total) ELSE Max2(-5, cur - s.total)
           overflow == IF p = "A" THEN Max2(0, cur + s.total - 5)
                       ELSE Max2(0, Abs(cur - s.total) - 5)
       IN S08Overflow(SetAt(s.board, pos, new),
                      <<Up(pos), Down(pos), Left(pos), Right(pos)>>, p, overflow)

\* the subsets of S with exactly k elements
SubsetsOfSize(S, k) == {T \in SUBSET S : Cardinality(T) = k}

\* cell.addStability(d) on every cell of a set of distinct positions
AddSet(b, S, d) == [q \in DOMAIN b |-> IF q \in S THEN Clip(b[q] + d) ELSE b[q]]

\* S09_LastFortress.applyEffect: the boards Math.random() can lead to
S09ApplyEffect(b, pos, p, remainingTurns) ==
  LET region == SeqToSet(RegionOf(b, pos, p)) IN
  IF region = {} THEN {b}
  ELSE IF remainingTurns >= AwakenTurns
       THEN {AddSet(b, T, Sign(p)) :
               T \in UNION {SubsetsOfSize(region, Min2(k, Cardinality(region))) : k \in 1 .. 3}}
       ELSE {[q \in DOMAIN b |->
                IF q \in region /\ IsOwnedBy(b[q], p)
                THEN Clip(Sign(p) * Min2(5, Abs(b[q]) * 2))
                ELSE IF IsOwnedBy(b[q], p) THEN 0 ELSE b[q]]}

\* S10_TargetLock.applyEffect
S10ApplyEffect(b, pos, p, opponentTargets) ==
  IF pos \in SeqToSet(opponentTargets)
  THEN AddAt(SetAt(b, pos, Sign(p) * 5), pos, Sign(p) * 2)
  ELSE IF ~IsValidPosition(b, pos) THEN b
       ELSE IF IsOwnedBy(b[pos], p) THEN AddAt(b, pos, -2 * Sign(p))
       ELSE IF IsNeutral(b[pos]) THEN AddAt(b, pos, -Sign(p))
       ELSE AddAt(b, pos, Sign(p))

\* ------------------------------------------------------------ GameManager
VARIABLES
  board,                       \* GameManager.board
  hand,                        \* Player.hand, per player (set of card ids)
  used,                        \* Player.usedCards, per player
  currentTurn,                 \* GameManager.currentTurn
  state,                       \* GameManager.state
  selections,                  \* GameManager.selections
  timeBombs,                   \* GameManager.timeBombs
  doubleActionActive,          \* GameManager.doubleActionActive
  doubleActionRemaining,       \* GameManager.doubleActionRemaining
  doubleActionFirstSelection,  \* GameManager.doubleActionFirstSelection
  skipNextTurn,                \* GameManager.skipNextTurn
  lastColorCard,               \* GameManager.lastColorCard
  totalTurns,                  \* GameManager.totalTurns
  cloned,                      \* the Board object a call of board.clone() returned
  last                         \* the last call: its name, its outcome, the selections it read

vars == <<board, hand, used, currentTurn, state, selections, timeBombs,
          doubleActionActive, doubleActionRemaining, doubleActionFirstSelection,
          skipNextTurn, lastColorCard, totalTurns, cloned, last>>

NullSel == [cardId |-> NoCard, pos |-> NoPos]

\* a call that read no pending selection
Called(op, ret) == [op |-> op, ret |-> ret, sel |-> [p \in Players |-> NullSel]]

\* the engine's fields as one record; threw is set when a call ends in an
\* uncaught TypeError
Eng ==
  [board |-> board, hand |-> hand, used |-> used, turn |-> currentTurn, state |-> state,
   sel |-> selections, bombs |-> timeBombs, daActive |-> doubleActionActive,
   daRem |-> doubleActionRemaining, daFirst |-> doubleActionFirstSelection,
   skip |-> skipNextTurn, lastColor |-> lastColorCard, total |-> totalTurns,
   threw |-> FALSE]

\* Player.getHand: the cards of the hand not yet used
GetHand(g, p) == g.hand[p] \ g.used[p]

\* Player.useCard succeeds (returns the card) iff the card is in the hand and unused
CanUseCard(g, p, c) == c \in g.hand[p] /\ c \notin g.used[p]
UseCard(g, p, c) == [g EXCEPT !.used[p] = @ \cup {c}]

\* GameManager.getRemainingTurns
GetRemainingTurns(g) == g.total - g.turn + 1

\* a penalty that falls on every cell the player owns, whatever the count
ApplyPenaltyAll(b, p, count) ==
  {AddSet(b, {q \in DOMAIN b : IsOwnedBy(b[q], p)}, -Sign(p))}

\* GameManager.applyPenalty: the boards the random choice can lead to
ApplyPenalty(b, p, count) ==
  LET own == {q \in DOMAIN b : IsOwnedBy(b[q], p)}
  IN {AddSet(b, T, -Sign(p)) : T \in SubsetsOfSize(own, Min2(count, Cardinality(own)))}

\* GameManager.applyColorCard
ApplyColorCard(g, c, pos, p) ==
  [g EXCEPT !.board = ApplyEffect(c, g.board, pos, p), !.lastColor[p] = c]

\* GameManager.applyFortCard
ApplyFortCard(g, c, pos, p) == [g EXCEPT !.board = ApplyEffect(c, g.board, pos, p)]

\* changes.set(key, delta): a later delta replaces an earlier one (not what
\* the engine does)
RECURSIVE AccumulateOverwrite(_, _, _)
AccumulateOverwrite(changes, seq, d) ==
  IF seq = <<>> THEN changes
  ELSE LET k == Head(seq)
       IN AccumulateOverwrite([x \in DOMAIN changes \cup {k} |->
                                 IF x = k THEN d ELSE changes[x]],
                              Tail(seq), d)

\* changes.set(key, (changes.get(key) || 0) + delta) for every position; the
\* key "x,y" of a position is read back as the same position
RECURSIVE Accumulate(_, _, _)
Accumulate(changes, seq, d) ==
  IF seq = <<>> THEN changes
  ELSE LET k == Head(seq)
           v == (IF k \in DOMAIN changes THEN changes[k] ELSE 0) + d
       IN Accumulate([x \in DOMAIN changes \cup {k} |-> IF x = k THEN v ELSE changes[x]],
                     Tail(seq), d)

NoChanges == [x \in {} |-> 0]

\* one cell.addStability(delta) per key of the map
ApplyChanges(b, changes) ==
  [q \in DOMAIN b |-> IF q \in DOMAIN changes THEN Clip(b[q] + changes[q]) ELSE b[q]]

\* the two colour cards applied one after the other, each through
\* cell.addStability (not what the engine does)
ApplyColorCardsSequentially(g, cardA, selA, enabledA, cardB, selB, enabledB) ==
  LET doA == cardA # NoCard /\ enabledA
      doB == cardB # NoCard /\ enabledB
      b1 == IF doA
            THEN AddSeq(g.board, GetTargetPositions(cardA, g.board, selA.pos, "A"),
                        GetPower(cardA))
            ELSE g.board
      b2 == IF doB
            THEN AddSeq(b1, GetTargetPositions(cardB, g.board, selB.pos, "B"),
                        -GetPower(cardB))
            ELSE b1
  IN [g EXCEPT !.board = b2,
               !.lastColor = [p \in Players |->
                                IF p = "A" /\ doA THEN cardA
                                ELSE IF p = "B" /\ doB THEN cardB ELSE @[p]]]

\* GameManager.applyColorCardsSimultaneously; cardA / cardB are NoCard for null
ApplyColorCardsSimultaneously(g, cardA, selA, enabledA, cardB, selB, enabledB) ==
  LET doA == cardA # NoCard /\ enabledA
      doB == cardB # NoCard /\ enabledB
      ch1 == IF doA
             THEN Accumulate(NoChanges, GetTargetPositions(cardA, g.board, selA.pos, "A"),
                             GetPower(cardA))
             ELSE NoChanges
      ch2 == IF doB
             THEN Accumulate(ch1, GetTargetPositions(cardB, g.board, selB.pos, "B"),
                             -GetPower(cardB))
             ELSE ch1
  IN [g EXCEPT !.board = ApplyChanges(g.board, ch2),
               !.lastColor = [p \in Players |->
                                IF p = "A" /\ doA THEN cardA
                                ELSE IF p = "B" /\ doB THEN cardB ELSE @[p]]]

\* applySpecialCard with S04 starting a multi-action whatever the hand holds
\* (not what the engine does)
ApplySpecialCardAlwaysDouble(g, c, pos, p, oppCard, oppSel) ==
  CASE c = "S05" ->
         IF oppCard = NoCard THEN {[g EXCEPT !.threw = TRUE]}
         ELSE IF GetType(oppCard) = "special" THEN {g}
         ELSE {[g EXCEPT !.board = b] : b \in ApplyPenalty(g.board, p, PenaltyCount)}
    [] c = "S06" ->
         IF oppCard = NoCard THEN {[g EXCEPT !.threw = TRUE]}
         ELSE IF GetType(oppCard) = "color"
         THEN LET oppT == GetTargetPositions(oppCard, g.board, oppSel.pos, Opponent(p))
                  stolen == IF Len(oppT) > 0
                            THEN {AddAt(g.board, oppT[i], Sign(p)) : i \in 1 .. Len(oppT)}
                            ELSE {g.board}
              IN {[g EXCEPT !.board = AddSeq(b, GetTargetPositions(oppCard, b, pos, p),
                                             Sign(p) * GetPower(oppCard))] : b \in stolen}
         ELSE {[g EXCEPT !.board = b] : b \in ApplyPenalty(g.board, p, PenaltyCount)}
    [] c = "S07" ->
         {[g EXCEPT !.bombs = Append(@, [position |-> pos, playerId |-> p, turn |-> g.turn,
                                         explosionTurn |-> g.turn + BombDelay])]}
    [] c = "S04" ->
         {[g EXCEPT !.daActive[p] = TRUE, !.daRem[p] = DoubleActionPlays]}
    [] c = "S01" -> {[g EXCEPT !.board = S01ApplyEffect(g.board, pos, p, g.turn, g.total)]}
    [] c = "S02" -> {[g EXCEPT !.board = S02ApplyEffect(g.board, pos, p, g.lastColor[p], NoPos)]}
    [] c = "S03" -> {[g EXCEPT !.board = S03ApplyEffect(g.board, pos, p)]}
    [] c = "S08" -> {[g EXCEPT !.board = S08ApplyEffect(g.board, pos, p, <<>>)]}
    [] c = "S09" -> {[g EXCEPT !.board = b] :
                       b \in S09ApplyEffect(g.board, pos, p, GetRemainingTurns(g))}
    [] c = "S10" -> {[g EXCEPT !.board = S10ApplyEffect(g.board, pos, p, <<>>)]}

\* GameManager.applySpecialCard: the engines the call can lead to.  oppCard
\* is NoCard when the caller passes null.
ApplySpecialCard(g, c, pos, p, oppCard, oppSel) ==
  CASE c = "S05" ->
         IF oppCard = NoCard THEN {[g EXCEPT !.threw = TRUE]}
         ELSE IF GetType(oppCard) = "special" THEN {g}
         ELSE {[g EXCEPT !.board = b] : b \in ApplyPenalty(g.board, p, PenaltyCount)}
    [] c = "S06" ->
         IF oppCard = NoCard THEN {[g EXCEPT !.threw = TRUE]}
         ELSE IF GetType(oppCard) = "color"
         THEN LET oppT == GetTargetPositions(oppCard, g.board, oppSel.pos, Opponent(p))
                  stolen == IF Len(oppT) > 0
                            THEN {AddAt(g.board, oppT[i], Sign(p)) : i \in 1 .. Len(oppT)}
                            ELSE {g.board}
              IN {[g EXCEPT !.board = AddSeq(b, GetTargetPositions(oppCard, b, pos, p),
                                             Sign(p) * GetPower(oppCard))] : b \in stolen}
         ELSE {[g EXCEPT !.board = b] : b \in ApplyPenalty(g.board, p, PenaltyCount)}
    [] c = "S07" ->
         {[g EXCEPT !.bombs = Append(@, [position |-> pos, playerId |-> p, turn |-> g.turn,
                                         explosionTurn |-> g.turn + BombDelay])]}
    [] c = "S04" ->
         IF Cardinality({h \in GetHand(g, p) : h # "S04" /\ StartsWithC(h)}) <= 1
         THEN {[g EXCEPT !.board = AddAt(g.board, pos, Sign(p))]}
         ELSE {[g EXCEPT !.daActive[p] = TRUE, !.daRem[p] = DoubleActionPlays]}
    [] c = "S01" -> {[g EXCEPT !.board = S01ApplyEffect(g.board, pos, p, g.turn, g.total)]}
    [] c = "S02" -> {[g EXCEPT !.board = S02ApplyEffect(g.board, pos, p, g.lastColor[p], NoPos)]}
    [] c = "S03" -> {[g EXCEPT !.board = S03ApplyEffect(g.board, pos, p)]}
    [] c = "S08" -> {[g EXCEPT !.board = S08ApplyEffect(g.board, pos, p, <<>>)]}
    [] c = "S09" -> {[g EXCEPT !.board = b] :
                       b \in S09ApplyEffect(g.board, pos, p, GetRemainingTurns(g))}
    [] c = "S10" -> {[g EXCEPT !.board = S10ApplyEffect(g.board, pos, p, <<>>)]}

\* GameManager.checkTimeBombs
RECURSIVE ExplodeAll(_, _)
ExplodeAll(b, bombs) ==
  IF bombs = <<>> THEN b
  ELSE ExplodeAll(Explode(b, Head(bombs).position, Head(bombs).playerId), Tail(bombs))

\* due one turn early (not what the engine does)
BombDueEarly(g, bomb) == g.turn + 1 >= bomb.explosionTurn
\* if (this.currentTurn >= explosionTurn)
BombDue(g, bomb) == g.turn >= bomb.explosionTurn

CheckTimeBombs(g) ==
  [g EXCEPT !.board = ExplodeAll(g.board, SelectSeq(g.bombs, LAMBDA bd : BombDue(g, bd))),
            !.bombs = SelectSeq(g.bombs, LAMBDA bd : ~BombDue(g, bd))]

\* endTurn acting on the delayed effects that are due (not what the engine
\* does)
EndTurnOfExploding(g) ==
  [CheckTimeBombs(g) EXCEPT !.turn = @ + 1,
                            !.sel = [p \in Players |-> NullSel],
                            !.state = IF g.turn + 1 > g.total THEN "finished" ELSE "selecting"]

\* endTurn without the increment of the turn number (not what the engine
\* does)
EndTurnOfStalled(g) ==
  [g EXCEPT !.sel = [p \in Players |-> NullSel],
            !.state = IF g.turn > g.total THEN "finished" ELSE "selecting"]

\* GameManager.endTurn
EndTurnOf(g) ==
  [g EXCEPT !.turn = @ + 1,
            !.sel = [p \in Players |-> NullSel],
            !.state = IF g.turn + 1 > g.total THEN "finished" ELSE "selecting"]

\* ready as soon as one of the players is (not what the engine does)
AreBothPlayersReadyEither(g) ==
  \/ g.skip["A"] \/ g.sel["A"] # NullSel
  \/ g.skip["B"] \/ g.sel["B"] # NullSel

\* both players ready, or a multi-action player with a plays left has
\* selected, whatever the opponent did (not what the engine does)
AreBothPlayersReadyMultiAlone(g) ==
  \/ /\ g.skip["A"] \/ g.sel["A"] # NullSel
     /\ g.skip["B"] \/ g.sel["B"] # NullSel
  \/ \E p \in Players : g.daActive[p] /\ g.daRem[p] >= 1 /\ g.sel[p] # NullSel

\* GameManager.areBothPlayersReady: the normal check, then the branches of a
\* multi-action of A and of B, then the final check; every branch returns
\* aReady && bReady
AreBothPlayersReady(g) ==
  LET aReady == g.skip["A"] \/ g.sel["A"] # NullSel
      bReady == g.skip["B"] \/ g.sel["B"] # NullSel
  IN IF ~g.daActive["A"] /\ ~g.daActive["B"] THEN aReady /\ bReady
     ELSE IF g.daActive["A"] /\ g.daRem["A"] > 1 /\ g.sel["A"] # NullSel
     THEN aReady /\ bReady
     ELSE IF g.daActive["A"] /\ g.daRem["A"] = 1 /\ g.sel["A"] # NullSel
     THEN aReady /\ bReady
     ELSE IF g.daActive["B"] /\ g.daRem["B"] > 1 /\ g.sel["B"] # NullSel
     THEN aReady /\ bReady
     ELSE IF g.daActive["B"] /\ g.daRem["B"] = 1 /\ g.sel["B"] # NullSel
     THEN aReady /\ bReady
     ELSE aReady /\ bReady

\* selectCard without the test of the skip flag (not what the engine does)
SelectCardReturnsSkipped(g, p, sel) ==
  /\ g.state = "selecting"
  /\ sel.cardId \in g.hand[p]
  /\ sel.cardId \notin g.used[p]
  /\ g.daActive[p] => StartsWithC(sel.cardId)
  /\ \/ CanPlay(sel.cardId, g.board, sel.pos, p)
     \/ Cardinality(GetHand(g, p)) = 1

\* selectCard without the test of the used-card set (not what the engine
\* does)
SelectCardReturnsUsed(g, p, sel) ==
  /\ g.state = "selecting"
  /\ ~g.skip[p]
  /\ sel.cardId \in g.hand[p]
  /\ g.daActive[p] => StartsWithC(sel.cardId)
  /\ \/ CanPlay(sel.cardId, g.board, sel.pos, p)
     \/ Cardinality(GetHand(g, p)) = 1

\* GameManager.selectCard: the value returned
SelectCardReturns(g, p, sel) ==
  /\ g.state = "selecting"
  /\ ~g.skip[p]
  /\ sel.cardId \in g.hand[p]
  /\ sel.cardId \notin g.used[p]
  /\ g.daActive[p] => StartsWithC(sel.cardId)
  /\ \/ CanPlay(sel.cardId, g.board, sel.pos, p)
     \/ Cardinality(GetHand(g, p)) = 1

\* GameManager.selectCard: the engine after the call
SelectCardOf(g, p, sel) ==
  IF SelectCardReturns(g, p, sel) THEN [g EXCEPT !.sel[p] = sel] ELSE g

\* GameManager.cancelCardSelection
CancelReturns(g, p) ==
  g.state = "selecting" /\ g.daActive[p] /\ g.daRem[p] >= 1

CancelOf(g, p) == IF CancelReturns(g, p) THEN [g EXCEPT !.sel[p] = NullSel] ELSE g

\* the double-action block without the skip flag set at the end (not what the
\* engine does)
DoubleActionStepNoSkip(g, p, wasActive, wasSkip) ==
  IF ~(wasActive /\ ~wasSkip) \/ g.sel[p] = NullSel THEN [g |-> g, kind |-> "none"]
  ELSE LET sel == g.sel[p]
           rem == g.daRem[p]
           g1 == UseCard(g, p, sel.cardId)
           g2 == IF GetType(sel.cardId) = "color"
                 THEN ApplyColorCard(g1, sel.cardId, sel.pos, p) ELSE g1
       IN IF rem > 1
          THEN IF ~CanUseCard(g, p, sel.cardId) THEN [g |-> g, kind |-> "missing"]
               ELSE [g |-> [g2 EXCEPT !.daFirst[p] = sel, !.daRem[p] = rem - 1,
                                      !.sel[p] = NullSel],
                     kind |-> "first"]
          ELSE IF rem = 1
          THEN IF ~CanUseCard(g, p, sel.cardId) THEN [g |-> g, kind |-> "missing"]
               ELSE [g |-> [g2 EXCEPT !.daActive[p] = FALSE, !.daRem[p] = 0,
                                      !.daFirst[p] = NullSel],
                     kind |-> "completed"]
          ELSE [g |-> g, kind |-> "none"]

\* the double-action block leaving the first card's selection pending (not
\* what the engine does)
DoubleActionStepKeepsSelection(g, p, wasActive, wasSkip) ==
  IF ~(wasActive /\ ~wasSkip) \/ g.sel[p] = NullSel THEN [g |-> g, kind |-> "none"]
  ELSE LET sel == g.sel[p]
           rem == g.daRem[p]
           g1 == UseCard(g, p, sel.cardId)
           g2 == IF GetType(sel.cardId) = "color"
                 THEN ApplyColorCard(g1, sel.cardId, sel.pos, p) ELSE g1
       IN IF rem > 1
          THEN IF ~CanUseCard(g, p, sel.cardId) THEN [g |-> g, kind |-> "missing"]
               ELSE [g |-> [g2 EXCEPT !.daFirst[p] = sel, !.daRem[p] = rem - 1],
                     kind |-> "first"]
          ELSE IF rem = 1
          THEN IF ~CanUseCard(g, p, sel.cardId) THEN [g |-> g, kind |-> "missing"]
               ELSE [g |-> [g2 EXCEPT !.daActive[p] = FALSE, !.daRem[p] = 0,
                                      !.skip[p] = TRUE, !.daFirst[p] = NullSel],
                     kind |-> "completed"]
          ELSE [g |-> g, kind |-> "none"]

\* the double-action block leaving the multi-action switched on when the
\* second card is played (not what the engine does)
DoubleActionStepStaysActive(g, p, wasActive, wasSkip) ==
  IF ~(wasActive /\ ~wasSkip) \/ g.sel[p] = NullSel THEN [g |-> g, kind |-> "none"]
  ELSE LET sel == g.sel[p]
           rem == g.daRem[p]
           g1 == UseCard(g, p, sel.cardId)
           g2 == IF GetType(sel.cardId) = "color"
                 THEN ApplyColorCard(g1, sel.cardId, sel.pos, p) ELSE g1
       IN IF rem > 1
          THEN IF ~CanUseCard(g, p, sel.cardId) THEN [g |-> g, kind |-> "missing"]
               ELSE [g |-> [g2 EXCEPT !.daFirst[p] = sel, !.daRem[p] = rem - 1,
                                      !.sel[p] = NullSel],
                     kind |-> "first"]
          ELSE IF rem = 1
          THEN IF ~CanUseCard(g, p, sel.cardId) THEN [g |-> g, kind |-> "missing"]
               ELSE [g |-> [g2 EXCEPT !.daRem[p] = 0,
                                      !.skip[p] = TRUE, !.daFirst[p] = NullSel],
                     kind |-> "completed"]
          ELSE [g |-> g, kind |-> "none"]

\* GameManager.resolveTurn, the double-action block of one player.  kind is
\* "first" (the first card was played: return), "completed" (the second card
\* was played), "missing" (useCard returned null: return) or "none".
DoubleActionStep(g, p, wasActive, wasSkip) ==
  IF ~(wasActive /\ ~wasSkip) \/ g.sel[p] = NullSel THEN [g |-> g, kind |-> "none"]
  ELSE LET sel == g.sel[p]
           rem == g.daRem[p]
           g1 == UseCard(g, p, sel.cardId)
           g2 == IF GetType(sel.cardId) = "color"
                 THEN ApplyColorCard(g1, sel.cardId, sel.pos, p) ELSE g1
       IN IF rem > 1
          THEN IF ~CanUseCard(g, p, sel.cardId) THEN [g |-> g, kind |-> "missing"]
               ELSE [g |-> [g2 EXCEPT !.daFirst[p] = sel, !.daRem[p] = rem - 1,
                                      !.sel[p] = NullSel],
                     kind |-> "first"]
          ELSE IF rem = 1
          THEN IF ~CanUseCard(g, p, sel.cardId) THEN [g |-> g, kind |-> "missing"]
               ELSE [g |-> [g2 EXCEPT !.daActive[p] = FALSE, !.daRem[p] = 0,
                                      !.skip[p] = TRUE, !.daFirst[p] = NullSel],
                     kind |-> "completed"]
          ELSE [g |-> g, kind |-> "none"]

\* an early "this.state = 'selecting'; return"
BackToSelecting(g, path) == {[g |-> [g EXCEPT !.state = "selecting"], path |-> path]}

\* checkTimeBombs(); endTurn(); unless the call has thrown
FinishRound(gs, path) ==
  {IF o.threw THEN [g |-> o, path |-> "threw"]
   ELSE [g |-> EndTurnOf(CheckTimeBombs(o)), path |-> path] : o \in gs}

\* GameManager.resolveTurn, one skipped player: only player p's card is processed
ResolveSolo(g, p) ==
  LET sel == g.sel[p] IN
  IF sel = NullSel THEN BackToSelecting(g, "noSelection")
  ELSE IF ~CanUseCard(g, p, sel.cardId) THEN BackToSelecting(g, "missing")
  ELSE LET g1 == UseCard(g, p, sel.cardId)
           c == sel.cardId
       IN CASE GetType(c) = "color" ->
                 FinishRound({ApplyColorCard(g1, c, sel.pos, p)}, "solo")
            [] GetType(c) = "fort" ->
                 FinishRound({ApplyFortCard(g1, c, sel.pos, p)}, "solo")
            [] OTHER ->
                 FinishRound(ApplySpecialCard(g1, c, sel.pos, p, NoCard, NullSel), "solo")

\* the special phase without any jammer override: every special card is
\* handed to applySpecialCard (not what the engine does)
SpecialPhaseNoJam(g, cardA, selA, cardB, selB) ==
  LET afterA == IF GetType(cardA) = "special"
                THEN ApplySpecialCard(g, cardA, selA.pos, "A", cardB, selB)
                ELSE {g}
  IN IF GetType(cardB) = "special"
     THEN UNION {ApplySpecialCard(o, cardB, selB.pos, "B", cardA, selA) : o \in afterA}
     ELSE afterA

\* the special phase without the both-jammers override (not what the engine
\* does)
SpecialPhaseNoMutual(g, cardA, selA, cardB, selB) ==
  LET isSpecialA == GetType(cardA) = "special"
      isSpecialB == GetType(cardB) = "special"
      jammerA == isSpecialA /\ cardA = "S05"
      jammerB == isSpecialB /\ cardB = "S05"
  IN IF jammerA /\ isSpecialB
     THEN ApplySpecialCard(g, cardA, selA.pos, "A", cardB, selB)
     ELSE IF jammerB /\ isSpecialA
     THEN ApplySpecialCard(g, cardB, selB.pos, "B", cardA, selA)
     ELSE LET afterA == IF isSpecialA
                        THEN ApplySpecialCard(g, cardA, selA.pos, "A", cardB, selB)
                        ELSE {g}
          IN IF isSpecialB
             THEN UNION {ApplySpecialCard(o, cardB, selB.pos, "B", cardA, selA) : o \in afterA}
             ELSE afterA

\* the special phase of a normal round
SpecialPhase(g, cardA, selA, cardB, selB) ==
  LET isSpecialA == GetType(cardA) = "special"
      isSpecialB == GetType(cardB) = "special"
      jammerA == isSpecialA /\ cardA = "S05"
      jammerB == isSpecialB /\ cardB = "S05"
  IN IF jammerA /\ jammerB
     THEN {[g EXCEPT !.board = b2] :
             b2 \in UNION {ApplyPenalty(b1, "B", PenaltyCount) :
                             b1 \in ApplyPenalty(g.board, "A", PenaltyCount)}}
     ELSE IF jammerA /\ isSpecialB
     THEN ApplySpecialCard(g, cardA, selA.pos, "A", cardB, selB)
     ELSE IF jammerB /\ isSpecialA
     THEN ApplySpecialCard(g, cardB, selB.pos, "B", cardA, selA)
     ELSE LET afterA == IF isSpecialA
                        THEN ApplySpecialCard(g, cardA, selA.pos, "A", cardB, selB)
                        ELSE {g}
          IN IF isSpecialB
             THEN UNION {ApplySpecialCard(o, cardB, selB.pos, "B", cardA, selA) : o \in afterA}
             ELSE afterA

\* player.useCard(selection.cardId): the card is marked used when it is held
UseCardIf(ok, g, p, c) == IF ok THEN UseCard(g, p, c) ELSE g

\* the Area phase of a normal round: both colour cards are handed to
\* applyColorCardsSimultaneously, each disabled by the other player's jammer
ColorPhase(g, cardA, selA, cardB, selB) ==
  LET specialJammerA == GetType(cardA) = "special" /\ cardA = "S05"
      specialJammerB == GetType(cardB) = "special" /\ cardB = "S05"
      colorCardA == IF GetType(cardA) = "color" THEN cardA ELSE NoCard
      colorCardB == IF GetType(cardB) = "color" THEN cardB ELSE NoCard
  IN IF colorCardA # NoCard \/ colorCardB # NoCard
     THEN ApplyColorCardsSimultaneously(g, colorCardA, selA, ~specialJammerB,
                                        colorCardB, selB, ~specialJammerA)
     ELSE g

\* the Boost phase of one player: applyFortCard when the card is a fort card
FortPhase(g, c, pos, p) == IF GetType(c) = "fort" THEN ApplyFortCard(g, c, pos, p) ELSE g

\* a normal round once both cards were taken from the hands: colour phase,
\* fort phase of A then of B, special phase, time bombs, endTurn
NormalRound(g, okA, okB, selA, selB) ==
  IF ~okA \/ ~okB THEN BackToSelecting(g, "missing")
  ELSE FinishRound(
         SpecialPhase(
           FortPhase(
             FortPhase(ColorPhase(g, selA.cardId, selA, selB.cardId, selB),
                       selA.cardId, selA.pos, "A"),
             selB.cardId, selB.pos, "B"),
           selA.cardId, selA, selB.cardId, selB),
         "normal")

\* GameManager.resolveTurn, neither player skipped
ResolveNormal(g) ==
  LET selA == g.sel["A"]
      selB == g.sel["B"]
  IN IF selA = NullSel \/ selB = NullSel THEN BackToSelecting(g, "noSelection")
     ELSE NormalRound(
            UseCardIf(CanUseCard(g, "B", selB.cardId),
                      UseCardIf(CanUseCard(g, "A", selA.cardId), g, "A", selA.cardId),
                      "B", selB.cardId),
            CanUseCard(g, "A", selA.cardId), CanUseCard(g, "B", selB.cardId), selA, selB)

\* GameManager.resolveTurn after the two double-action blocks
ResolveRest(g0, stepA, stepB, skipA, skipB) ==
  IF stepA.kind \in {"first", "missing"} THEN BackToSelecting(stepA.g, stepA.kind)
  ELSE IF stepB.kind \in {"first", "missing"} THEN BackToSelecting(stepB.g, stepB.kind)
  ELSE IF stepA.kind = "completed" \/ stepB.kind = "completed"
  THEN {[g |-> EndTurnOf(stepB.g), path |-> "completed"]}
  ELSE IF skipA /\ skipB THEN {[g |-> EndTurnOf(g0), path |-> "bothSkip"]}
  ELSE IF skipA THEN ResolveSolo(g0, "B")
  ELSE IF skipB THEN ResolveSolo(g0, "A")
  ELSE ResolveNormal(g0)

\* the double-action block of B runs on what the block of A left
ResolveAfterA(g, g0, stepA) ==
  ResolveRest(g0, stepA, DoubleActionStep(stepA.g, "B", g.daActive["B"], g.skip["B"]),
              g.skip["A"], g.skip["B"])

\* this.state = 'resolving', then the double-action block of A
ResolveStarted(g, g0) ==
  ResolveAfterA(g, g0, DoubleActionStep(g0, "A", g.daActive["A"], g.skip["A"]))

\* GameManager.resolveTurn: the engines the call can lead to, each with the
\* path the call took
ResolveTurnOf(g) ==
  IF g.state # "selecting" \/ ~AreBothPlayersReady(g) THEN {[g |-> g, path |-> "noop"]}
  ELSE ResolveStarted(g, [g EXCEPT !.state = "resolving"])

\* ---------------------------------------------------------------- Scoring
\* Scoring.calculateAreaScore: 2 per owned cell
CalculateAreaScore(b, p) == 2 * Cardinality({q \in DOMAIN b : IsOwnedBy(b[q], p)})

\* a table that gives half the magnitude (not what the scoring does)
SturdinessMapHalf(m) == m \div 2

\* the bonusMap of calculateSturdinessBonus; a missing key counts 0
SturdinessMap(m) ==
  CASE m = 1 -> 0 [] m = 2 -> 1 [] m = 3 -> 2 [] m = 4 -> 3 [] m = 5 -> 4 [] OTHER -> 0

\* bonus += bonusMap[absStability] || 0 over the cells of a sequence
RECURSIVE SumSturdiness(_, _, _)
SumSturdiness(b, p, cells) ==
  IF cells = <<>> THEN 0
  ELSE (IF IsOwnedBy(b[Head(cells)], p) THEN SturdinessMap(Abs(b[Head(cells)])) ELSE 0)
       + SumSturdiness(b, p, Tail(cells))

\* Scoring.calculateSturdinessBonus
CalculateSturdinessBonus(b, p) == SumSturdiness(b, p, ScanOrder(b))

\* Math.min(...stabilities) over the cells of a shape
RECURSIVE MinStability(_, _)
MinStability(b, cells) ==
  IF Len(cells) = 1 THEN Abs(b[cells[1]])
  ELSE Min2(Abs(b[Head(cells)]), MinStability(b, Tail(cells)))

\* one candidate shape of detectFortressShapes: pushed when all its cells are
\* in the region, exist, are owned by p and the minimum magnitude is >= 2
ShapeIf(b, regionSet, p, pattern, cells) ==
  IF /\ \A i \in 1 .. Len(cells) : cells[i] \in regionSet
     /\ \A i \in 1 .. Len(cells) : OwnedValid(b, cells[i], p)
     /\ MinStability(b, cells) >= 2
  THEN <<[pattern |-> pattern, positions |-> cells, minStability |-> MinStability(b, cells)]>>
  ELSE <<>>

\* the 2x2 block whose upper left cell is pos
Block2x2(pos) == <<pos, Right(pos), Down(pos), Right(Down(pos))>>

\* the four L shapes inside that block
LShapes(pos) ==
  <<<<pos, Right(pos), Down(pos)>>,
    <<pos, Right(pos), Right(Down(pos))>>,
    <<pos, Down(pos), Right(Down(pos))>>,
    <<Right(pos), Down(pos), Right(Down(pos))>>>>

\* the cross centred on pos
Cross(pos) == <<pos, Up(pos), Down(pos), Left(pos), Right(pos)>>

\* the loops of detectFortressShapes over region.positions
RECURSIVE Detect2x2(_, _, _, _)
Detect2x2(b, regionSet, p, cells) ==
  IF cells = <<>> THEN <<>>
  ELSE ShapeIf(b, regionSet, p, "2x2", Block2x2(Head(cells)))
       \o Detect2x2(b, regionSet, p, Tail(cells))

RECURSIVE DetectL(_, _, _, _)
DetectL(b, regionSet, p, cells) ==
  IF cells = <<>> THEN <<>>
  ELSE ShapeIf(b, regionSet, p, "L", LShapes(Head(cells))[1])
       \o ShapeIf(b, regionSet, p, "L", LShapes(Head(cells))[2])
       \o ShapeIf(b, regionSet, p, "L", LShapes(Head(cells))[3])
       \o ShapeIf(b, regionSet, p, "L", LShapes(Head(cells))[4])
       \o DetectL(b, regionSet, p, Tail(cells))

RECURSIVE DetectCross(_, _, _, _)
DetectCross(b, regionSet, p, cells) ==
  IF cells = <<>> THEN <<>>
  ELSE ShapeIf(b, regionSet, p, "cross", Cross(Head(cells)))
       \o DetectCross(b, regionSet, p, Tail(cells))

\* Scoring.detectFortressShapes
DetectFortressShapes(b, region, p) ==
  Detect2x2(b, SeqToSet(region), p, region)
  \o DetectL(b, SeqToSet(region), p, region)
  \o DetectCross(b, SeqToSet(region), p, region)

\* shapes.sort((a, b) => b.minStability - a.minStability): stable, descending
RECURSIVE InsertShape(_, _)
InsertShape(sorted, s) ==
  IF sorted = <<>> THEN <<s>>
  ELSE IF Head(sorted).minStability >= s.minStability
       THEN <<Head(sorted)>> \o InsertShape(Tail(sorted), s)
       ELSE <<s>> \o sorted

RECURSIVE SortShapes(_, _)
SortShapes(shapes, sorted) ==
  IF shapes = <<>> THEN sorted
  ELSE SortShapes(Tail(shapes), InsertShape(sorted, Head(shapes)))

\* the bonusMap of calculateFortressBonus; a missing key counts 0
FortressMap(m) == CASE m = 2 -> 2 [] m = 3 -> 4 [] m = 4 -> 6 [] m = 5 -> 8 [] OTHER -> 0

\* Math.floor(baseBonus / 2) for the second and later shapes
RECURSIVE HalfBonuses(_)
HalfBonuses(shapes) ==
  IF shapes = <<>> THEN 0
  ELSE (FortressMap(Head(shapes).minStability) \div 2) + HalfBonuses(Tail(shapes))

\* the bonus of one region: the first sorted shape in full, the others by half
RegionBonus(sorted) ==
  IF sorted = <<>> THEN 0
  ELSE FortressMap(Head(sorted).minStability) + HalfBonuses(Tail(sorted))

RECURSIVE SumRegionBonus(_, _, _)
SumRegionBonus(b, p, regions) ==
  IF regions = <<>> THEN 0
  ELSE RegionBonus(SortShapes(DetectFortressShapes(b, Head(regions), p), <<>>))
       + SumRegionBonus(b, p, Tail(regions))

\* Scoring.calculateFortressBonus
CalculateFortressBonus(b, p) == SumRegionBonus(b, p, GetConnectedRegions(b, p))

\* Scoring.calculateTotalScore
CalculateTotalScore(b, p) ==
  CalculateAreaScore(b, p) + CalculateSturdinessBonus(b, p) + CalculateFortressBonus(b, p)

\* GameManager.calculateScores
CalculateScores(b) ==
  LET scoreA == CalculateTotalScore(b, "A")
      scoreB == CalculateTotalScore(b, "B")
  IN [playerAScore |-> scoreA, playerBScore |-> scoreB,
      winner |-> IF scoreA > scoreB THEN "A" ELSE IF scoreB > scoreA THEN "B" ELSE "draw"]

\* ------------------------------------------------- Board objects by reference
\* A Board holds a grid of references to Cell objects.  The cells of the
\* engine's board are the values of the variable board; a board made by
\* clone() is a grid of references plus the stabilities of the Cell objects
\* its constructor created.
NoBoard == "none"

\* a reference to the Cell object that board "this" or board "cloned" created
\* for position q
CellRef(owner, q) == [board |-> owner, at |-> q]

\* new Board(size): one new Cell(x, y) per position, stability 0
NewBoard(n) ==
  [cellAt |-> [q \in (0 .. n - 1) \X (0 .. n - 1) |-> CellRef("cloned", q)],
   fresh |-> [q \in (0 .. n - 1) \X (0 .. n - 1) |-> 0]]

\* cell.stability read through the grid of board c, b being the cells of the
\* engine's board
StabilityAt(c, b, q) ==
  IF c.cellAt[q].board = "this" THEN b[c.cellAt[q].at] ELSE c.fresh[c.cellAt[q].at]

\* clonedCell.setStability(v) for the cell of c at q: the Cell objects of c
\* after the call
SetCloneCell(c, q, v) ==
  IF q \in DOMAIN c.cellAt /\ c.cellAt[q].board = "cloned"
  THEN [c EXCEPT !.fresh[c.cellAt[q].at] = Clip(v)]
  ELSE c

\* the same call: the cells of the engine's board after it
SetCloneCellThis(c, b, q, v) ==
  IF q \in DOMAIN c.cellAt /\ c.cellAt[q].board = "this"
  THEN SetAt(b, c.cellAt[q].at, v)
  ELSE b

\* the loop of Board.clone over the cells in scan order
RECURSIVE CopyCells(_, _, _)
CopyCells(c, b, cells) ==
  IF cells = <<>> THEN c
  ELSE CopyCells(SetCloneCell(c, Head(cells), b[Head(cells)]), b, Tail(cells))

\* a clone that hands out the original's Cell objects (not what Board.clone
\* does)
CloneAliased(b) ==
  [cellAt |-> [q \in DOMAIN b |-> CellRef("this", q)],
   fresh |-> [q \in DOMAIN b |-> 0]]

\* Board.clone
Clone(b) == CopyCells(NewBoard(SizeOf(b)), b, ScanOrder(b))

\* ------------------------------------------------------- the state machine
\* the hands the two Player objects are constructed with
Deals ==
  {[A |-> {"S04", "C01", "C13"}, B |-> {"C09", "S05", "S06"}],
   [A |-> {"C01", "S03", "C09"}, B |-> {"C01", "C09", "F09"}],
   [A |-> {"S07", "C01", "F01"}, B |-> {"S04", "C01", "C13"}],
   [A |-> {"S04", "S07", "C01", "C06"}, B |-> {"S04", "C01", "C09"}],
   [A |-> {"C01", "S05", "F01", "S03"}, B |-> {"C01", "S05", "S07"}]}

\* the target positions a caller passes: two cells of the grid and one
\* position outside it
Targets == {<<0, 0>>, <<1, 0>>, <<0, -1>>}

\* the selections a caller passes: a card of either hand (so also cards the
\* player does not hold) on one of the targets
Selections == [cardId : hand["A"] \cup hand["B"], pos : Targets]

\* an engine constructed in a setup phase, to be started by a first endTurn
\* (not what the constructor does)
InitSetup ==
  /\ board = EmptyBoard
  /\ \E d \in Deals : hand = [p \in Players |-> d[p]]
  /\ used = [p \in Players |-> {}]
  /\ currentTurn = 0
  /\ state = "setup"
  /\ selections = [p \in Players |-> NullSel]
  /\ timeBombs = <<>>
  /\ doubleActionActive = [p \in Players |-> FALSE]
  /\ doubleActionRemaining = [p \in Players |-> 0]
  /\ doubleActionFirstSelection = [p \in Players |-> NullSel]
  /\ skipNextTurn = [p \in Players |-> FALSE]
  /\ lastColorCard = [p \in Players |-> NoCard]
  /\ totalTurns = TotalTurns
  /\ cloned = NoBoard
  /\ last = Called("new", "void")

\* new Player('A', handA), new Player('B', handB), new GameManager(playerA, playerB)
Init ==
  /\ board = EmptyBoard
  /\ \E d \in Deals : hand = [p \in Players |-> d[p]]
  /\ used = [p \in Players |-> {}]
  /\ currentTurn = 1
  /\ state = "selecting"
  /\ selections = [p \in Players |-> NullSel]
  /\ timeBombs = <<>>
  /\ doubleActionActive = [p \in Players |-> FALSE]
  /\ doubleActionRemaining = [p \in Players |-> 0]
  /\ doubleActionFirstSelection = [p \in Players |-> NullSel]
  /\ skipNextTurn = [p \in Players |-> FALSE]
  /\ lastColorCard = [p \in Players |-> NoCard]
  /\ totalTurns = TotalTurns
  /\ cloned = NoBoard
  /\ last = Called("new", "void")

\* the engine's fields become g's; the engine's operations hand out no board
Becomes(g) ==
  /\ cloned' = cloned
  /\ board' = g.board
  /\ hand' = g.hand
  /\ used' = g.used
  /\ currentTurn' = g.turn
  /\ state' = g.state
  /\ selections' = g.sel
  /\ timeBombs' = g.bombs
  /\ doubleActionActive' = g.daActive
  /\ doubleActionRemaining' = g.daRem
  /\ doubleActionFirstSelection' = g.daFirst
  /\ skipNextTurn' = g.skip
  /\ lastColorCard' = g.lastColor
  /\ totalTurns' = g.total

BoolStr(v) == IF v THEN "true" ELSE "false"

\* selectCard(p, sel)
SelectCard(p, sel) ==
  /\ Becomes(SelectCardOf(Eng, p, sel))
  /\ last' = Called("selectCard", BoolStr(SelectCardReturns(Eng, p, sel)))

\* cancelCardSelection(p)
CancelCardSelection(p) ==
  /\ Becomes(CancelOf(Eng, p))
  /\ last' = Called("cancelCardSelection", BoolStr(CancelReturns(Eng, p)))

\* clearSelection(p)
ClearSelection(p) ==
  /\ Becomes([Eng EXCEPT !.sel[p] = NullSel])
  /\ last' = Called("clearSelection", "void")

\* resetSkipFlag(p)
ResetSkipFlag(p) ==
  /\ Becomes([Eng EXCEPT !.skip[p] = FALSE])
  /\ last' = Called("resetSkipFlag", "void")

\* resolveTurn()
ResolveTurn ==
  \E o \in ResolveTurnOf(Eng) :
    /\ Becomes(o.g)
    /\ last' = [op |-> "resolveTurn", ret |-> o.path, sel |-> selections]

\* endTurn() called from outside resolveTurn; the turn counter is not
\* advanced beyond MaxTurn
MaxTurn == TotalTurns + 2
EndTurn ==
  /\ currentTurn < MaxTurn
  /\ Becomes(EndTurnOf(Eng))
  /\ last' = Called("endTurn", "void")

Next ==
  \/ \E p \in Players, sel \in Selections : SelectCard(p, sel)
  \/ \E p \in Players : CancelCardSelection(p)
  \/ \E p \in Players : ClearSelection(p)
  \/ \E p \in Players : ResetSkipFlag(p)
  \/ ResolveTurn
  \/ EndTurn

Spec == Init /\ [][Next]_vars

\* the engine driven through selectCard / resolveTurn only: every round is
\* concluded by resolveTurn, endTurn is never called from outside
NextPlay ==
  \/ \E p \in Players, sel \in Selections : SelectCard(p, sel)
  \/ \E p \in Players : CancelCardSelection(p)
  \/ \E p \in Players : ClearSelection(p)
  \/ \E p \in Players : ResetSkipFlag(p)
  \/ ResolveTurn

SpecPlay == Init /\ [][NextPlay]_vars

\* --------------------------------------------------- the Board class alone
\* the stabilities the cells of a board under test hold, and the values a
\* caller writes with setStability (one of them beyond the range)
SampleStabilities == {-1, 0, 1}
WrittenStabilities == {-1, MaxStability + 1}

\* a Board whose cells hold any of the sample stabilities; no game is played
InitBoard ==
  /\ board \in [Positions -> SampleStabilities]
  /\ hand = [p \in Players |-> {}]
  /\ used = [p \in Players |-> {}]
  /\ currentTurn = 1
  /\ state = "selecting"
  /\ selections = [p \in Players |-> NullSel]
  /\ timeBombs = <<>>
  /\ doubleActionActive = [p \in Players |-> FALSE]
  /\ doubleActionRemaining = [p \in Players |-> 0]
  /\ doubleActionFirstSelection = [p \in Players |-> NullSel]
  /\ skipNextTurn = [p \in Players |-> FALSE]
  /\ lastColorCard = [p \in Players |-> NoCard]
  /\ totalTurns = TotalTurns
  /\ cloned = NoBoard
  /\ last = Called("new", "void")

GameVars == <<hand, used, currentTurn, state, selections, timeBombs, doubleActionActive,
              doubleActionRemaining, doubleActionFirstSelection, skipNextTurn,
              lastColorCard, totalTurns>>

\* board.getConnectedRegions(p)
CallGetConnectedRegions(p) ==
  /\ last.op = "new"
  /\ last' = Called("getConnectedRegions",
                    [playerId |-> p, regions |-> GetConnectedRegions(board, p)])
  /\ UNCHANGED <<board, cloned, GameVars>>

\* board.clone()
CallClone ==
  /\ last.op = "new"
  /\ cloned' = Clone(board)
  /\ last' = Called("clone", "board")
  /\ UNCHANGED <<board, GameVars>>

\* board.getCell(q).setStability(v) on the original, after the clone was made
SetOriginalCell(q, v) ==
  /\ last.op = "clone"
  /\ board' = SetAt(board, q, v)
  /\ last' = Called("setStability", [on |-> "original", at |-> q, value |-> v])
  /\ UNCHANGED <<cloned, GameVars>>

\* cloned.getCell(q).setStability(v) on the board clone() returned
SetClonedCell(q, v) ==
  /\ last.op = "clone"
  /\ cloned' = SetCloneCell(cloned, q, v)
  /\ board' = SetCloneCellThis(cloned, board, q, v)
  /\ last' = Called("setStability", [on |-> "cloned", at |-> q, value |-> v])
  /\ UNCHANGED GameVars

NextBoard ==
  \/ \E p \in Players : CallGetConnectedRegions(p)
  \/ CallClone
  \/ \E q \in Positions, v \in WrittenStabilities : SetOriginalCell(q, v)
  \/ \E q \in Positions, v \in WrittenStabilities : SetClonedCell(q, v)

SpecBoard == InitBoard /\ [][NextBoard]_vars

\* ------------------------------------------------- the Scoring class alone
\* the size of a board made by new Board() and the magnitudes the cells of
\* the shapes under test hold
DefaultSize == 5
ShapeMagnitudes == {1, 2, 3}

ScorePositions == (0 .. DefaultSize - 1) \X (0 .. DefaultSize - 1)

\* the cells of the middle row, where a single cell can link two shapes
LinkCells == {q \in ScorePositions : q[2] = DefaultSize \div 2}

\* the board with the cells of a sequence set to v through setStability
RECURSIVE SetSeq(_, _, _)
SetSeq(b, cells, v) ==
  IF cells = <<>> THEN b ELSE SetSeq(SetAt(b, Head(cells), v), Tail(cells), v)

\* a board holding a 2x2 block of player pb with magnitude mb, a cross of
\* player pc with magnitude mc written after it, and one more cell of player
\* pb with magnitude 1 (a position off the board leaves it out)
ShapedBoard(o, pb, mb, c, pc, mc, l) ==
  LET b0 == [q \in ScorePositions |-> 0]
      b1 == IF IsValidPosition(b0, l) THEN SetAt(b0, l, Sign(pb)) ELSE b0
      b2 == SetSeq(b1, Block2x2(o), Sign(pb) * mb)
  IN SetSeq(b2, Cross(c), Sign(pc) * mc)

\* a finished game's board of the default size holding such shapes
InitScore ==
  /\ \E o \in (0 .. DefaultSize - 2) \X (0 .. DefaultSize - 2),
        c \in (1 .. DefaultSize - 2) \X (1 .. DefaultSize - 2),
        pb \in Players, pc \in Players,
        mb \in ShapeMagnitudes, mc \in ShapeMagnitudes,
        l \in LinkCells \cup {NoPos} :
       board = ShapedBoard(o, pb, mb, c, pc, mc, l)
  /\ hand = [p \in Players |-> {}]
  /\ used = [p \in Players |-> {}]
  /\ currentTurn = TotalTurns + 1
  /\ state = "finished"
  /\ selections = [p \in Players |-> NullSel]
  /\ timeBombs = <<>>
  /\ doubleActionActive = [p \in Players |-> FALSE]
  /\ doubleActionRemaining = [p \in Players |-> 0]
  /\ doubleActionFirstSelection = [p \in Players |-> NullSel]
  /\ skipNextTurn = [p \in Players |-> FALSE]
  /\ lastColorCard = [p \in Players |-> NoCard]
  /\ totalTurns = TotalTurns
  /\ cloned = NoBoard
  /\ last = Called("new", "void")

\* Scoring.calculateFortressBonus(board, p)
CallCalculateFortressBonus(p) ==
  /\ last.op = "new"
  /\ last' = Called("calculateFortressBonus",
                    [playerId |-> p, bonus |-> CalculateFortressBonus(board, p)])
  /\ UNCHANGED <<board, cloned, GameVars>>

\* gameManager.calculateScores()
CallCalculateScores ==
  /\ last.op = "new"
  /\ last' = Called("calculateScores", CalculateScores(board))
  /\ UNCHANGED <<board, cloned, GameVars>>

NextScore ==
  \/ \E p \in Players : CallCalculateFortressBonus(p)
  \/ CallCalculateScores

SpecScore == InitScore /\ [][NextScore]_vars

\* ------------------------------------------- the page driving the engine
\* GameUI (main.ts) calls resolveTurn in two places, both reached from a
\* successful selectCard or from a round in which a player is skipped. The
\* game of the page lasts one round more than the shortest game in which a
\* multi-action can be played and its player skipped, so that a round follows
\* the skipped one.
PageTurns == TotalTurns + 1

\* new GameManager(playerA, playerB, boardSize, totalTurns) from initializeGame
InitPage ==
  /\ board = EmptyBoard
  /\ \E d \in Deals : hand = [p \in Players |-> d[p]]
  /\ used = [p \in Players |-> {}]
  /\ currentTurn = 1
  /\ state = "selecting"
  /\ selections = [p \in Players |-> NullSel]
  /\ timeBombs = <<>>
  /\ doubleActionActive = [p \in Players |-> FALSE]
  /\ doubleActionRemaining = [p \in Players |-> 0]
  /\ doubleActionFirstSelection = [p \in Players |-> NullSel]
  /\ skipNextTurn = [p \in Players |-> FALSE]
  /\ lastColorCard = [p \in Players |-> NoCard]
  /\ totalTurns = PageTurns
  /\ cloned = NoBoard
  /\ last = Called("new", "void")

\* isDoubleActionX && remainingX > 1 in checkBothDecided
MidMultiAction(g) == \E p \in Players : g.daActive[p] /\ g.daRem[p] > 1

\* the tail of GameUI.resolvePhase: both pending selections are cleared and
\* resetSkipFlag is called for the players whose flag was set before
\* resolveTurn was called
AfterResolveTurn(g, skipBefore) ==
  [g EXCEPT !.sel = [p \in Players |-> NullSel],
            !.skip = [p \in Players |-> IF skipBefore[p] THEN FALSE ELSE g.skip[p]]]

\* what the page leaves of the outcome o of resolveTurn called on g: called
\* directly from checkBothDecided nothing is reset, and nothing is once
\* resolveTurn has thrown; resolvePhase resets the selections and the flags
\* it read as set
PageOutcome(g, o) ==
  IF MidMultiAction(g) \/ o.path = "threw" THEN o.g ELSE AfterResolveTurn(o.g, g.skip)

\* the function of the page that called resolveTurn
PageCaller(g) == IF MidMultiAction(g) THEN "checkBothDecided" ELSE "resolvePhase"

\* GameUI.checkBothDecided once both players have decided (each by a
\* successful selectCard, or by being skipped): while a multi-action has a
\* play left after the current one resolveTurn is called directly, otherwise
\* through resolvePhase
CheckBothDecided ==
  /\ state = "selecting"
  /\ AreBothPlayersReady(Eng)
  /\ \E o \in ResolveTurnOf(Eng) :
       /\ Becomes(PageOutcome(Eng, o))
       /\ last' = [op |-> PageCaller(Eng), ret |-> o.path, sel |-> selections]

NextPage ==
  \/ \E p \in Players, sel \in Selections : SelectCard(p, sel)
  \/ \E p \in Players : CancelCardSelection(p)
  \/ CheckBothDecided

SpecPage == InitPage /\ [][NextPage]_vars

\* ------------------------------------------ games played with S01, S02, S10
\* hands holding the reversal, repeat and target-lock cards; the game is long
\* enough for the reversal to be played inside and outside its window
CardDeals ==
  {[A |-> {"C01", "S02", "C06"}, B |-> {"C01", "S10", "S01"}],
   [A |-> {"S01", "C01", "S10"}, B |-> {"S01", "C09", "S02"}]}

CardTurns == ReversalMargin + 2

\* new Player('A', handA), new Player('B', handB),
\* new GameManager(playerA, playerB, boardSize, totalTurns)
InitCards ==
  /\ board = EmptyBoard
  /\ \E d \in CardDeals : hand = [p \in Players |-> d[p]]
  /\ used = [p \in Players |-> {}]
  /\ currentTurn = 1
  /\ state = "selecting"
  /\ selections = [p \in Players |-> NullSel]
  /\ timeBombs = <<>>
  /\ doubleActionActive = [p \in Players |-> FALSE]
  /\ doubleActionRemaining = [p \in Players |-> 0]
  /\ doubleActionFirstSelection = [p \in Players |-> NullSel]
  /\ skipNextTurn = [p \in Players |-> FALSE]
  /\ lastColorCard = [p \in Players |-> NoCard]
  /\ totalTurns = CardTurns
  /\ cloned = NoBoard
  /\ last = Called("new", "void")

NextCards ==
  \/ \E p \in Players, sel \in Selections : SelectCard(p, sel)
  \/ ResolveTurn

SpecCards == InitCards /\ [][NextCards]_vars

\* ------------------------------------------------------------------ claims
\* C1: after any sequence of selectCard / cancelCardSelection / resolveTurn /
\* endTurn calls, every cell's stability is an integer in [-5, 5].
C1_StabilityInRange ==
  \A q \in Positions : board[q] \in (-MaxStability) .. MaxStability

\* a resolveTurn has left a cell at the upper limit and one at a lower value
C1_Witness ==
  /\ last.op = "resolveTurn"
  /\ \E q \in Positions : board[q] = MaxStability
  /\ "S03" \in used["A"] /\ "C09" \in used["A"]

\* ------------------------------------------------------------------
\* what the claims say about a round, in the claims' own terms

\* a call of resolveTurn has just been made
ResolveStep == last'.op = "resolveTurn"

\* player p holds a pending selection of a card that is in the hand and unused
Plays(p) ==
  /\ selections[p] # NullSel
  /\ selections[p].cardId \in hand[p] \ used[p]

\* a normal round: the phase is Selecting, nobody is skipped or in
\* multi-action, and both players play a card
NormalRoundOf(typesA, typesB) ==
  /\ state = "selecting"
  /\ \A p \in Players : ~skipNextTurn[p] /\ ~doubleActionActive[p] /\ Plays(p)
  /\ GetType(selections["A"].cardId) \in typesA
  /\ GetType(selections["B"].cardId) \in typesB

\* the signed delta player p's card puts on cell q, computed on board b
DeltaOn(b, p, q) ==
  LET T == GetTargetPositions(selections[p].cardId, b, selections[p].pos, p)
  IN Sign(p) * GetPower(selections[p].cardId) * Cardinality({i \in 1 .. Len(T) : T[i] = q})

InRange(v) == v >= -MaxStability /\ v <= MaxStability
ClipTo(v) == IF v > MaxStability THEN MaxStability
             ELSE IF v < -MaxStability THEN -MaxStability ELSE v

\* the delayed effects that are due when the round ends
DueNow == SelectSeq(timeBombs, LAMBDA bd : currentTurn >= bd.explosionTurn)

\* the pre-round board with both deltas summed and clipped once
SummedBoard == [q \in Positions |->
                  ClipTo(board[q] + DeltaOn(board, "A", q) + DeltaOn(board, "B", q))]

\* C2: in a normal round where both players play Area cards every cell ends
\* at clip(old + deltaA + deltaB), the two deltas summed before one clip (the
\* delayed effects due at the end of the round act on that board); on a cell
\* both cards touch, the result differs from applying and clipping one card
\* after the other, in either order, exactly when the intermediate value is
\* clipped.
C2_SummedThenClipped ==
  [][(ResolveStep /\ NormalRoundOf({"color"}, {"color"})) =>
       /\ board' = ExplodeAll(SummedBoard, DueNow)
       /\ \A q \in Positions :
            LET dA == DeltaOn(board, "A", q)
                dB == DeltaOn(board, "B", q)
            IN (dA # 0 /\ dB # 0) =>
                 /\ (SummedBoard[q] # ClipTo(ClipTo(board[q] + dA) + dB))
                      <=> ~InRange(board[q] + dA)
                 /\ (SummedBoard[q] # ClipTo(ClipTo(board[q] + dB) + dA))
                      <=> ~InRange(board[q] + dB)]_vars

\* a cell at +5 received +1 from A and -1 from B in one round and stayed at +5
C2_Witness ==
  /\ last.op = "resolveTurn" /\ last.ret = "normal"
  /\ last.sel["A"] = [cardId |-> "C09", pos |-> <<0, 0>>]
  /\ last.sel["B"] = [cardId |-> "C01", pos |-> <<0, 0>>]
  /\ board[<<0, 0>>] = MaxStability

\* the signed delta player p's Area or Boost card puts on cell q when its
\* affected cells are read on board b; F09 also moves every enemy cell one
\* step toward neutral
CardDeltaOn(b, p, q) ==
  IF selections[p].cardId = "F09" /\ IsOwnedByEnemy(b[q], p) THEN Sign(p)
  ELSE DeltaOn(b, p, q)

\* the pre-round board with both cards' deltas, computed on the pre-round
\* board, summed and applied once
SummedCardsBoard ==
  [q \in Positions |->
     ClipTo(board[q] + CardDeltaOn(board, "A", q) + CardDeltaOn(board, "B", q))]

\* C3: in a normal round in which at least one player plays a Boost card the
\* resulting board equals the pre-round board plus both players' deltas, each
\* computed on the pre-round board, summed and applied once (followed by the
\* delayed effects due at the end of the round).
C3_BoostOnPreRoundBoard ==
  [][(/\ ResolveStep
      /\ NormalRoundOf({"color", "fort"}, {"color", "fort"})
      /\ \E p \in Players : GetType(selections[p].cardId) = "fort")
     => board' = ExplodeAll(SummedCardsBoard, DueNow)]_vars

\* the engine's fields apart from the pending selections
NonSelectionVars ==
  <<board, hand, used, currentTurn, state, timeBombs, doubleActionActive,
    doubleActionRemaining, doubleActionFirstSelection, skipNextTurn, lastColorCard>>

\* the five conditions under which a selection is accepted
Acceptable(p, sel) ==
  /\ state = "selecting"
  /\ ~skipNextTurn[p]
  /\ sel.cardId \in hand[p] /\ sel.cardId \notin used[p]
  /\ doubleActionActive[p] => GetType(sel.cardId) = "color"
  /\ \/ CanPlay(sel.cardId, board, sel.pos, p)
     \/ hand[p] \ used[p] = {sel.cardId}

EngineVars == <<selections, NonSelectionVars>>

\* the both-ready predicate: each player is skipped or has a pending selection
BothReady == \A p \in Players : skipNextTurn[p] \/ selections[p] # NullSel

\* C5: resolveTurn called when the phase is not Selecting, or when the
\* both-ready predicate is false, changes nothing.
C5_ResolveTurnGuarded ==
  [][(ResolveStep /\ (state # "selecting" \/ ~BothReady)) => UNCHANGED EngineVars]_vars

\* resolveTurn was called in the Selecting phase with only one player ready
C5_Witness ==
  /\ last.op = "resolveTurn" /\ last.ret = "noop"
  /\ state = "selecting" /\ selections["A"] # NullSel /\ ~BothReady

\* C6: every call of resolveTurn returns normally and leaves the phase
\* Selecting or Finished, never Resolving; this includes the round in which
\* one player is skipped and the other plays S05 or S06.
C6_ResolveTurnReturns ==
  last.op = "resolveTurn" => (last.ret # "threw" /\ state \in {"selecting", "finished"})

\* the Area cards player p still holds
AreaCardsLeft(p) == {c \in hand[p] \ used[p] : GetType(c) = "color"}

\* player p's pending card is taken from the hand by this call
Consumed(p) ==
  /\ Plays(p)
  /\ selections[p].cardId \in used'[p]

\* the round is concluded with the played cards processed
RoundProcessed == ResolveStep /\ last'.ret \in {"normal", "solo"}

\* player p's special card is nullified by the other player's S05
Jammed(p) ==
  /\ ~skipNextTurn[Opponent(p)]
  /\ selections[Opponent(p)].cardId = "S05"

\* C7: when S04 resolves, not jammed, for a player holding at least two other
\* Area cards, multi-action becomes active with remainingPlays = 2; when the
\* first Area sub-selection resolves remainingPlays is 1, the phase is
\* Selecting and the turn has not advanced; when the second resolves
\* multi-action is inactive, remainingPlays is 0, the player's skip flag is
\* set and the other player's skip flag is unchanged.
C7_MultiActionLifecycle ==
  [][\A p \in Players :
       /\ (RoundProcessed /\ Consumed(p) /\ selections[p].cardId = "S04"
             /\ ~Jammed(p) /\ Cardinality(AreaCardsLeft(p)) >= 2)
            => (doubleActionActive'[p] /\ doubleActionRemaining'[p] = 2)
       /\ (ResolveStep /\ Consumed(p) /\ doubleActionActive[p]
             /\ doubleActionRemaining[p] = 2)
            => /\ doubleActionActive'[p] /\ doubleActionRemaining'[p] = 1
               /\ state' = "selecting" /\ currentTurn' = currentTurn
       /\ (ResolveStep /\ Consumed(p) /\ doubleActionActive[p]
             /\ doubleActionRemaining[p] = 1)
            => /\ ~doubleActionActive'[p] /\ doubleActionRemaining'[p] = 0
               /\ skipNextTurn'[p]
               /\ skipNextTurn'[Opponent(p)] = skipNextTurn[Opponent(p)]]_vars

\* a player has gone through the whole cycle: S04, two Area cards, skip flag
C7_Witness ==
  /\ last.op = "resolveTurn" /\ last.ret = "completed"
  /\ \E p \in Players :
       /\ last.sel[p] # NullSel
       /\ {"S04", last.sel[p].cardId} \subseteq used[p]
       /\ Cardinality(used[p]) = 3
       /\ ~doubleActionActive[p] /\ doubleActionRemaining[p] = 0
       /\ skipNextTurn[p] /\ ~skipNextTurn[Opponent(p)]

\* C8: when a player completes the second multi-action play while the other
\* player, neither skipped nor in multi-action, holds a pending selection, the
\* other player's card is consumed in that round and the turn then advances.
C8_OpponentCardProcessed ==
  [][\A p \in Players :
       (/\ ResolveStep /\ Consumed(p)
        /\ doubleActionActive[p] /\ doubleActionRemaining[p] = 1
        /\ ~skipNextTurn[Opponent(p)] /\ ~doubleActionActive[Opponent(p)]
        /\ Plays(Opponent(p)))
       => /\ selections[Opponent(p)].cardId \in used'[Opponent(p)]
          /\ currentTurn' = currentTurn + 1]_vars

\* the delayed effects of a list
BombsOf(seq) == {seq[i] : i \in 1 .. Len(seq)}

\* C9: an S07 installed during turn T is recorded with installedTurn = T and
\* triggerTurn = T + 2 and changes no cell when installed; it does not
\* detonate during the resolution of turn T or T + 1; it detonates at most
\* once, being removed from the pending list when it detonates, and one S07
\* installs one delayed effect.
C9_TimedExplosive ==
  /\ [](\A bd \in BombsOf(timeBombs) :
          bd.explosionTurn = bd.turn + 2 /\ bd.turn <= currentTurn)
  /\ [](\A p \in Players, pos \in Targets :
          \A o \in ApplySpecialCard(Eng, "S07", pos, p, NoCard, NullSel) :
            o.board = board)
  /\ [][/\ \A p \in Players :
             (RoundProcessed /\ Consumed(p) /\ selections[p].cardId = "S07" /\ ~Jammed(p))
               => /\ [position |-> selections[p].pos, playerId |-> p, turn |-> currentTurn,
                      explosionTurn |-> currentTurn + 2] \in BombsOf(timeBombs')
                  /\ last'.ret = "solo" => board' = ExplodeAll(board, DueNow)
        /\ \A bd \in BombsOf(timeBombs') \ BombsOf(timeBombs) :
             /\ RoundProcessed
             /\ bd.turn = currentTurn
             /\ "S07" \in used'[bd.playerId] \ used[bd.playerId]
        /\ \A bd \in BombsOf(timeBombs) \ BombsOf(timeBombs') :
             /\ RoundProcessed
             /\ currentTurn >= bd.turn + 2
        /\ RoundProcessed =>
             \A bd \in BombsOf(timeBombs') : bd.explosionTurn > currentTurn]_vars

\* an S07 installed in turn 1 is still pending, undetonated, when turn 3 is
\* being selected
C9_Witness ==
  /\ last.op = "resolveTurn" /\ last.ret \in {"normal", "solo"}
  /\ state = "selecting" /\ currentTurn = 3
  /\ \E bd \in BombsOf(timeBombs) : bd.turn = 1 /\ bd.explosionTurn = 3

\* C10: every installed timed explosive eventually detonates: once the game,
\* played round by round through resolveTurn, is Finished, no delayed effect
\* is still pending.
C10_NoneLeftAtFinish == state = "finished" => timeBombs = <<>>

\* C11: every resolveTurn call that concludes a round (advances the turn
\* number) has run the delayed-effect check for that round, so no effect that
\* was due in the round is still pending after it; consequently, whenever the
\* phase is Selecting every pending delayed effect has triggerTurn >=
\* currentTurn.
C11_CheckedEveryRound ==
  /\ [](state = "selecting" =>
          \A bd \in BombsOf(timeBombs) : bd.explosionTurn >= currentTurn)
  /\ [][(ResolveStep /\ currentTurn' = currentTurn + 1) =>
          \A bd \in BombsOf(timeBombs') : bd.explosionTurn > currentTurn]_vars

\* the pre-round board with the Area card of player p alone applied in full
AreaBoard(p) == [q \in Positions |-> ClipTo(board[q] + DeltaOn(board, p, q))]

\* player j plays the jammer S05 against an Area card in a normal round
JammerMeetsArea(j) ==
  /\ NormalRoundOf({"color", "special"}, {"color", "special"})
  /\ selections[j].cardId = "S05"
  /\ GetType(selections[Opponent(j)].cardId) = "color"

\* C12: when exactly one player plays S05 and the opponent plays an Area card
\* in a normal round, the jammer nullifies nothing: the opponent's Area card
\* is applied in full and recorded as that player's last Area card, and the
\* jammer's owner suffers the miss penalty on the resulting board.
C12_JammerSparesAreaCard ==
  [][\A j \in Players :
       (ResolveStep /\ JammerMeetsArea(j)) =>
         /\ lastColorCard'[Opponent(j)] = selections[Opponent(j)].cardId
         /\ board' \in {ExplodeAll(b, DueNow) :
                          b \in ApplyPenalty(AreaBoard(Opponent(j)), j, PenaltyCount)}]_vars

\* both players play the jammer S05 in a normal round
BothJam ==
  /\ NormalRoundOf({"special"}, {"special"})
  /\ \A p \in Players : selections[p].cardId = "S05"

\* the cells player p owns before the round
OwnCells(p) == {q \in Positions : IsOwnedBy(board[q], p)}

\* the miss penalty of player p can fall on the cells T: up to PenaltyCount of
\* p's own cells
PenaltyCells(p, T) ==
  /\ T \subseteq OwnCells(p)
  /\ Cardinality(T) = Min2(PenaltyCount, Cardinality(OwnCells(p)))

\* the pre-round board with the cells TA of A and TB of B moved one step
\* toward neutral
Penalised(TA, TB) ==
  [q \in Positions |-> IF q \in TA THEN board[q] - 1
                       ELSE IF q \in TB THEN board[q] + 1 ELSE board[q]]

\* C13: when both players play S05 in the same round no special effect
\* fires: each player takes the miss penalty on own cells, no other cell is
\* changed by the special phase, and multi-action state, skip flags and the
\* pending delayed effects are left as they were (the delayed effects due at
\* the end of the round then act on that board).
C13_MutualJammers ==
  [][(ResolveStep /\ BothJam) =>
       /\ \E TA \in SUBSET OwnCells("A"), TB \in SUBSET OwnCells("B") :
            /\ PenaltyCells("A", TA) /\ PenaltyCells("B", TB)
            /\ board' = ExplodeAll(Penalised(TA, TB), DueNow)
       /\ doubleActionActive' = doubleActionActive
       /\ doubleActionRemaining' = doubleActionRemaining
       /\ skipNextTurn' = skipNextTurn
       /\ timeBombs' = SelectSeq(timeBombs, LAMBDA bd : currentTurn < bd.explosionTurn)
       /\ \A p \in Players : "S05" \in used'[p]]_vars

\* both jammers were resolved in a round that A entered with a fortified
\* cell and B with a cell of its own
C13_Witness ==
  /\ last.op = "resolveTurn" /\ last.ret = "normal"
  /\ \A p \in Players : last.sel[p].cardId = "S05"
  /\ "F01" \in used["A"] /\ "C01" \in used["B"]
  /\ board[<<0, 0>>] > 0
  /\ board[<<1, 0>>] = 0

\* player j plays the jammer S05 against another special card in a normal
\* round
JammerMeetsSpecial(j) ==
  /\ NormalRoundOf({"special"}, {"special"})
  /\ selections[j].cardId = "S05"
  /\ selections[Opponent(j)].cardId # "S05"

\* C14: when exactly one player plays S05 and the opponent plays any other
\* special card, the opponent's effect does not execute: both cards are
\* consumed, the special phase changes no cell (only the delayed effects due
\* at the end of the round act on the board), no multi-action is started, no
\* delayed effect is installed, no skip flag changes, and the jammer's owner
\* takes no penalty.
C14_JammerNullifiesSpecial ==
  [][\A j \in Players :
       (ResolveStep /\ JammerMeetsSpecial(j)) =>
         /\ \A p \in Players : selections[p].cardId \in used'[p]
         /\ board' = ExplodeAll(board, DueNow)
         /\ doubleActionActive' = doubleActionActive
         /\ doubleActionRemaining' = doubleActionRemaining
         /\ skipNextTurn' = skipNextTurn
         /\ timeBombs' = SelectSeq(timeBombs, LAMBDA bd : currentTurn < bd.explosionTurn)]_vars

\* a jammed S07 has been resolved on a board with owned cells: the card is
\* used and no delayed effect is pending
C14_Witness ==
  /\ last.op = "resolveTurn" /\ last.ret = "normal"
  /\ last.sel["A"].cardId = "S05" /\ last.sel["B"].cardId = "S07"
  /\ "S07" \in used["B"] /\ timeBombs = <<>>
  /\ \E q \in Positions : board[q] # 0

\* player p's pending selection was accepted under the hand-exhaustion rule
\* only: the card cannot be played on the target and is the last card left
Misfire(p) ==
  /\ state = "selecting"
  /\ ~skipNextTurn[p] /\ ~doubleActionActive[p]
  /\ Plays(p)
  /\ ~CanPlay(selections[p].cardId, board, selections[p].pos, p)
  /\ Cardinality(hand[p] \ used[p]) = 1

\* the other player takes no part in the round
SitsOut(p) == skipNextTurn[p]

\* the other player plays an Area card in the same round
PlaysArea(p) ==
  /\ ~skipNextTurn[p] /\ ~doubleActionActive[p]
  /\ Plays(p)
  /\ GetType(selections[p].cardId) = "color"

\* C15: a selection accepted only under the hand-exhaustion rule is a
\* misfire: when the round is resolved the card is consumed and no cell is
\* changed on behalf of that card, whatever the card and the target.  Stated
\* for the rounds in which the other player sits out (the board changes only
\* by the delayed effects that are due) or plays an Area card against a
\* misfired card other than the jammer (the board changes only by that Area
\* card and the delayed effects that are due).
C15_MisfireChangesNothing ==
  [][\A p \in Players :
       (RoundProcessed /\ Misfire(p)) =>
         /\ selections[p].cardId \in used'[p]
         /\ SitsOut(Opponent(p)) => board' = ExplodeAll(board, DueNow)
         /\ (PlaysArea(Opponent(p)) /\ selections[p].cardId # "S05") =>
              board' = ExplodeAll(AreaBoard(Opponent(p)), DueNow)]_vars

\* every position a caller can pass on this board, and one outside it
AnyTargets == Positions \cup {<<0, -1>>}

\* some selection of player p would be accepted by selectCard
CanSelectSomething(p) ==
  \E c \in hand[p] \ used[p], pos \in AnyTargets :
    SelectCardReturns(Eng, p, [cardId |-> c, pos |-> pos])

\* C16: whenever the phase is Selecting and a player who is not skipped holds
\* at least one unused card, selectCard accepts at least one selection of
\* that player (a card with no legal placement can be selected as a misfire
\* even when other cards remain), so the game never gets stuck.
C16_NeverStuck ==
  \A p \in Players :
    (state = "selecting" /\ ~skipNextTurn[p] /\ hand[p] \ used[p] # {}) =>
      CanSelectSomething(p)

\* C17: Finished is terminal and frozen: once the phase is Finished no call
\* of selectCard, cancelCardSelection, resolveTurn or endTurn changes the
\* phase, the board, the turn number or the used-card sets.
C17_FinishedFrozen ==
  [][state = "finished" =>
       /\ state' = "finished"
       /\ board' = board
       /\ currentTurn' = currentTurn
       /\ used' = used]_vars

\* the resolveTurn call took a branch that concludes the round
Concluding == ResolveStep /\ last'.ret \in {"completed", "bothSkip", "solo", "normal"}

\* the resolveTurn call returned at once or resolved a multi-action
\* sub-selection
NotConcluding == ResolveStep /\ last'.ret \in {"noop", "first", "missing", "noSelection"}

\* some round of the game is never concluded: the turn number stays at some
\* n <= totalTurns forever
SomeRoundNeverConcluded ==
  \E n \in 1 .. TotalTurns : <>[](currentTurn = n)

\* C18: the turn number starts at 1 and never decreases; every resolveTurn
\* call that concludes a round increases it by exactly 1 and clears both
\* pending selections; intermediate multi-action sub-resolutions and no-op
\* calls leave it unchanged; the phase is Finished exactly when the turn
\* number exceeds totalTurns; and if every round is eventually concluded,
\* Finished is eventually reached.
C18_TurnCounting ==
  /\ [](currentTurn >= 1 /\ (state = "finished" <=> currentTurn > TotalTurns))
  /\ [][/\ currentTurn' >= currentTurn
        /\ Concluding => /\ currentTurn' = currentTurn + 1
                         /\ \A p \in Players : selections'[p] = NullSel
        /\ NotConcluding => currentTurn' = currentTurn]_vars
  /\ (SomeRoundNeverConcluded \/ <>(state = "finished"))

\* the game was finished by a resolveTurn call that completed a multi-action
\* round, after a sub-resolution that left the turn unchanged
C18_Witness ==
  /\ state = "finished"
  /\ currentTurn = TotalTurns + 1
  /\ last.op = "resolveTurn" /\ last.ret = "completed"

\* two positions are neighbours up, down, left or right
Adjacent(q, r) == Abs(q[1] - r[1]) + Abs(q[2] - r[2]) = 1

\* the cells of S that can be reached from the cells of seed by steps between
\* neighbours inside S
RECURSIVE Grow(_, _)
Grow(seed, S) ==
  LET next == seed \cup {q \in S : \E r \in seed : Adjacent(q, r)}
  IN IF next = seed THEN seed ELSE Grow(next, S)

\* S is 4-connected
Connected(S) == S = {} \/ Grow({CHOOSE q \in S : TRUE}, S) = S

\* C19: getConnectedRegions(owner) returns regions that are pairwise
\* disjoint, whose union is exactly the set of cells owned by owner, and each
\* of which is a maximal 4-connected set of such cells (no position is listed
\* twice, no region is empty).
C19_ConnectedRegions ==
  last.op = "getConnectedRegions" =>
    LET p == last.ret.playerId
        rs == last.ret.regions
        cellsOf(i) == SeqToSet(rs[i])
        owned == {q \in Positions : IsOwnedBy(board[q], p)}
    IN /\ \A i \in 1 .. Len(rs) :
            /\ rs[i] # <<>>
            /\ Cardinality(cellsOf(i)) = Len(rs[i])
            /\ Connected(cellsOf(i))
            /\ \A q \in owned \ cellsOf(i) : \A r \in cellsOf(i) : ~Adjacent(q, r)
       /\ \A i, j \in 1 .. Len(rs) : i # j => cellsOf(i) \cap cellsOf(j) = {}
       /\ UNION {cellsOf(i) : i \in 1 .. Len(rs)} = owned

\* the call returned two regions of the owner on a board that also holds a
\* cell the owner does not own
C19_Witness ==
  /\ last.op = "getConnectedRegions"
  /\ Len(last.ret.regions) = 2
  /\ \E q \in Positions : ~IsOwnedBy(board[q], last.ret.playerId)

\* the stabilities read through the board clone() returned
ClonedStabilities == [q \in DOMAIN cloned.cellAt |-> StabilityAt(cloned, board, q)]

\* a call of setStability on a cell of the original / of the clone
WritesOriginal == last'.op = "setStability" /\ last'.ret.on = "original"
WritesCloned == last'.op = "setStability" /\ last'.ret.on = "cloned"

\* C20: Board.clone() returns a board of the same size whose cells hold the
\* same stabilities, and the two boards are independent: a later write to a
\* cell of the original does not change the clone, a later write to a cell
\* of the clone does not change the original.
C20_CloneIndependent ==
  /\ [](last.op = "clone" =>
          /\ DOMAIN cloned.cellAt = DOMAIN board
          /\ ClonedStabilities = board)
  /\ [][/\ WritesOriginal =>
             /\ board'[last'.ret.at] = ClipTo(last'.ret.value)
             /\ ClonedStabilities' = ClonedStabilities
        /\ WritesCloned =>
             /\ ClonedStabilities' =
                  [ClonedStabilities EXCEPT ![last'.ret.at] = ClipTo(last'.ret.value)]
             /\ board' = board]_vars

\* after a write to the original the clone still holds the old stability
C20_Witness ==
  /\ last.op = "setStability" /\ last.ret.on = "original"
  /\ StabilityAt(cloned, board, last.ret.at) # board[last.ret.at]

\* the cells of the board under test owned by p
OwnedBy(p) == {q \in DOMAIN board : IsOwnedBy(board[q], p)}

\* the smallest magnitude over the cells of a set
MinMagnitude(S) == CHOOSE m \in 0 .. MaxStability :
                     /\ \E q \in S : Abs(board[q]) = m
                     /\ \A q \in S : Abs(board[q]) >= m

\* player p's cells form one connected region that holds a 2x2 block of
\* minimum magnitude 3 and, apart from it, a cross of minimum magnitude 2
BlockAndCross(p) ==
  /\ OwnedBy(p) # {}
  /\ Connected(OwnedBy(p))
  /\ \E o, c \in DOMAIN board :
       /\ SeqToSet(Block2x2(o)) \subseteq OwnedBy(p)
       /\ SeqToSet(Cross(c)) \subseteq OwnedBy(p)
       /\ SeqToSet(Block2x2(o)) \cap SeqToSet(Cross(c)) = {}
       /\ MinMagnitude(SeqToSet(Block2x2(o))) = 3
       /\ MinMagnitude(SeqToSet(Cross(c))) = 2

\* C21: for a player whose single connected region contains a 2x2 block of
\* minimum magnitude 3 and a separate cross of minimum magnitude 2,
\* calculateFortressBonus returns exactly 5 (4 for the block plus
\* floor(2 / 2) = 1 for the cross).
C21_FortressStacking ==
  (last.op = "calculateFortressBonus" /\ BlockAndCross(last.ret.playerId)) =>
    last.ret.bonus = 5

\* round 1 of a new game in which both players play C01 on the same cell q
BothC01On(q) ==
  /\ currentTurn = 1 /\ board = EmptyBoard
  /\ \A p \in Players : used[p] = {}
  /\ NormalRoundOf({"color"}, {"color"})
  /\ \A p \in Players : selections[p] = [cardId |-> "C01", pos |-> q]

\* C22: on a fresh board, if both players play the single-cell +1 card C01
\* on the same cell in round 1, then after resolveTurn that cell's stability
\* is 0, it is owned by nobody, both players' area scores are 0 and the turn
\* number is 2.
C22_SameCellCancels ==
  [][\A q \in Positions :
       (ResolveStep /\ BothC01On(q)) =>
         /\ board'[q] = 0
         /\ IsNeutral(board'[q])
         /\ \A p \in Players : CalculateAreaScore(board', p) = 0
         /\ currentTurn' = 2]_vars

\* the round was resolved: both C01 are used and the turn is 2
C22_Witness ==
  /\ last.op = "resolveTurn" /\ last.ret = "normal"
  /\ \A p \in Players : last.sel[p] = [cardId |-> "C01", pos |-> <<0, 0>>]
  /\ \A p \in Players : used[p] = {"C01"}
  /\ currentTurn = 2

\* the sum of 2 + (magnitude - 1) over the cells of a set
RECURSIVE CellPoints(_)
CellPoints(S) ==
  IF S = {} THEN 0
  ELSE LET q == CHOOSE x \in S : TRUE
       IN 2 + (Abs(board[q]) - 1) + CellPoints(S \ {q})

\* the score the claim gives player p on the board under test
ClaimedScore(p) == CellPoints(OwnedBy(p)) + CalculateFortressBonus(board, p)

\* C23: calculateScores() is a pure function of the board: each player's
\* score is 2 per owned cell plus (magnitude - 1) per owned cell plus the
\* fortress bonus; the winner is A iff scoreA > scoreB, B iff scoreB > scoreA
\* and draw iff they are equal; computing it changes no cell and no engine
\* state.
C23_ScoresPure ==
  /\ [](last.op = "calculateScores" =>
          /\ last.ret.playerAScore = ClaimedScore("A")
          /\ last.ret.playerBScore = ClaimedScore("B")
          /\ last.ret.winner = "A" <=> last.ret.playerAScore > last.ret.playerBScore
          /\ last.ret.winner = "B" <=> last.ret.playerBScore > last.ret.playerAScore
          /\ last.ret.winner = "draw" <=> last.ret.playerAScore = last.ret.playerBScore)
  /\ [][last'.op = "calculateScores" => UNCHANGED <<board, cloned, GameVars>>]_vars

\* scores were computed on a board where both players own cells of magnitude
\* 3, A holds a fortress shape and B wins
C23_Witness ==
  /\ last.op = "calculateScores"
  /\ last.ret.winner = "B" /\ last.ret.playerAScore > 0
  /\ CalculateFortressBonus(board, "A") > 0
  /\ \A p \in Players : \E q \in OwnedBy(p) : Abs(board[q]) = 3

\* the multi-action window of player p in which the first card has been
\* consumed and the second is not yet resolved
CancelWindow(p) ==
  /\ state = "selecting"
  /\ doubleActionActive[p]
  /\ doubleActionRemaining[p] = 1

\* C24: cancelCardSelection succeeds only inside the multi-action window in
\* which the player's first card has been consumed and the second is not yet
\* resolved (phase Selecting, multi-action active, remainingPlays = 1), and
\* then clears only that player's pending selection; in every other state,
\* multi-action with remainingPlays = 2 included, it returns false and
\* changes nothing.
C24_CancelWindow ==
  /\ [](\A p \in Players : CancelReturns(Eng, p) <=> CancelWindow(p))
  /\ [][\A p \in Players :
          CancelCardSelection(p) =>
            /\ UNCHANGED NonSelectionVars
            /\ selections' = IF CancelWindow(p)
                             THEN [selections EXCEPT ![p] = NullSel]
                             ELSE selections]_vars

\* a round in which only player s is skipped and the other player, not in
\* multi-action, plays a card
OnlySkipped(s) ==
  /\ state = "selecting"
  /\ skipNextTurn[s] /\ ~skipNextTurn[Opponent(s)]
  /\ ~doubleActionActive[Opponent(s)]
  /\ Plays(Opponent(s))

\* a round in which both players are skipped
BothSkipped ==
  /\ state = "selecting"
  /\ \A p \in Players : skipNextTurn[p]

\* C25: in a round where exactly one player's skip flag is set, resolveTurn
\* consumes and applies only the other player's card (a C01 adds one step on
\* its target, then the delayed effects that are due act), leaves the skipped
\* player's hand and used-card set unchanged and advances the turn by one;
\* when both skip flags are set it changes neither the board nor any hand or
\* used-card set and advances the turn by one.
C25_SkipRounds ==
  [][/\ \A s \in Players :
          (ResolveStep /\ OnlySkipped(s)) =>
            /\ used'[Opponent(s)] = used[Opponent(s)] \cup {selections[Opponent(s)].cardId}
            /\ used'[s] = used[s]
            /\ hand' = hand
            /\ currentTurn' = currentTurn + 1
            /\ selections[Opponent(s)].cardId = "C01" =>
                 board' = ExplodeAll(AddAt(board, selections[Opponent(s)].pos,
                                           Sign(Opponent(s))), DueNow)
     /\ (ResolveStep /\ BothSkipped) =>
          /\ board' = board
          /\ hand' = hand /\ used' = used
          /\ currentTurn' = currentTurn + 1]_vars

\* a call of resolveTurn played the last card of p's multi-action
Completes(p) ==
  /\ last'.op \in {"resolvePhase", "checkBothDecided"}
  /\ doubleActionActive[p] /\ ~doubleActionActive'[p]

\* the round was concluded: the next one begins
RoundConcluded == currentTurn' = currentTurn + 1

\* a selection the rules allow p to make, whatever p's skip flag
LegalSelection(p, sel) ==
  /\ state = "selecting"
  /\ sel.cardId \in hand[p] /\ sel.cardId \notin used[p]
  /\ doubleActionActive[p] => GetType(sel.cardId) = "color"
  /\ \/ CanPlay(sel.cardId, board, sel.pos, p)
     \/ hand[p] \ used[p] = {sel.cardId}

C26_Witness ==
  /\ last.op = "selectCard" /\ last.ret = "true"
  /\ \E p \in Players :
       /\ "S04" \in used[p]
       /\ Cardinality(used[p]) = 3
       /\ ~doubleActionActive[p]
       /\ ~skipNextTurn[p]
       /\ currentTurn = 4
       /\ selections[p] # NullSel

\* a selection of p that only the used-card set stands against
OnlyUsedForbids(p, sel) ==
  /\ state = "selecting"
  /\ ~skipNextTurn[p]
  /\ sel.cardId \in hand[p] /\ sel.cardId \in used[p]
  /\ doubleActionActive[p] => GetType(sel.cardId) = "color"
  /\ CanPlay(sel.cardId, board, sel.pos, p)

\* C27: cards are single-use. The used-card set of a player only grows, by
\* one card at a time, only in resolveTurn, and the card it grows by is the
\* player's pending card, which was in the hand and not yet in the set; the
\* hands never change; selectCard accepts no card of the used-card set; and
\* resolveTurn changes the board, the delayed effects or a multi-action only
\* when it newly consumes a card, a normal round consuming both pending cards.
C27_SingleUse ==
  /\ [][\A p \in Players :
          /\ used[p] \subseteq used'[p]
          /\ hand'[p] = hand[p]
          /\ used'[p] # used[p] =>
               /\ ResolveStep
               /\ selections[p].cardId \in hand[p] \ used[p]
               /\ used'[p] = used[p] \cup {selections[p].cardId}]_vars
  /\ [](\A p \in Players :
          /\ used[p] \subseteq hand[p]
          /\ \A sel \in Selections :
               sel.cardId \in used[p] => ~SelectCardReturns(Eng, p, sel))
  /\ [][ResolveStep =>
          /\ (\/ board' # board
              \/ timeBombs' # timeBombs
              \/ doubleActionActive' # doubleActionActive) =>
               \E p \in Players : used'[p] # used[p]
          /\ last'.ret = "normal" =>
               \A p \in Players : selections[p].cardId \in used'[p] \ used[p]]_vars

\* selectCard has just refused a player who holds two used cards, and one of
\* them is refused for no other reason than being used
C27_Witness ==
  /\ last.op = "selectCard" /\ last.ret = "false"
  /\ \E p \in Players :
       /\ Cardinality(used[p]) >= 2
       /\ \E sel \in Selections : OnlyUsedForbids(p, sel)

\* C28: the board is mutated only inside resolveTurn: a call of selectCard,
\* cancelCardSelection, clearSelection, resetSkipFlag or endTurn leaves every
\* cell's stability as it was (areBothPlayersReady, calculateScores, canPlay
\* and getTargetPositions are evaluated within these steps and have no state
\* of their own to change).
C28_BoardOnlyInResolveTurn ==
  [][last'.op \in {"selectCard", "cancelCardSelection", "clearSelection",
                   "resetSkipFlag", "endTurn"} =>
       \A q \in Positions : board'[q] = board[q]]_vars

\* endTurn was called from outside on a board that is not empty, with a
\* delayed effect pending whose turn has come
C28_Witness ==
  /\ last.op = "endTurn"
  /\ board # EmptyBoard
  /\ \E i \in 1 .. Len(timeBombs) : BombDue(Eng, timeBombs[i])

\* C29: a newly constructed engine is already in phase Selecting at turn 1,
\* with every cell at stability 0, no pending selection for either player,
\* multi-action inactive with no play remaining, both skip flags false and no
\* pending delayed effect.
C29_FreshEngine ==
  last.op = "new" =>
    /\ state = "selecting"
    /\ currentTurn = 1
    /\ \A q \in Positions : board[q] = 0
    /\ \A p \in Players :
         /\ selections[p] = NullSel
         /\ ~doubleActionActive[p]
         /\ doubleActionRemaining[p] = 0
         /\ ~skipNextTurn[p]
    /\ timeBombs = <<>>

\* the engine as constructed, each player holding a hand, before any call
C29_Witness ==
  /\ last.op = "new"
  /\ state = "selecting"
  /\ board = EmptyBoard
  /\ \A p \in Players : hand[p] # {}

\* resolveTurn plays the first card of p's multi-action while the opponent is
\* not in a multi-action
FirstPlay(p) ==
  /\ ResolveStep
  /\ doubleActionActive[p] /\ ~doubleActionActive[Opponent(p)]
  /\ doubleActionRemaining[p] = DoubleActionPlays
  /\ doubleActionRemaining'[p] = DoubleActionPlays - 1

\* C30: in the intermediate multi-action sub-resolution (the player's
\* remaining plays go from 2 to 1) with an opponent who is not in
\* multi-action, only the multi-action player's Area card is consumed and it
\* is applied alone (a C01 adds one step on its target, whatever the opponent
\* has pending); the opponent's pending selection, the hands, the opponent's
\* used-card set, the turn number, both skip flags and the pending delayed
\* effects are unchanged; the player's own pending selection is cleared, the
\* first selection is recorded, and the phase is Selecting.
C30_FirstPlayIsolated ==
  [][\A p \in Players :
       FirstPlay(p) =>
         /\ GetType(selections[p].cardId) = "color"
         /\ used'[p] = used[p] \cup {selections[p].cardId}
         /\ selections[p].cardId \notin used[p]
         /\ board' = ApplyColorCard(Eng, selections[p].cardId, selections[p].pos, p).board
         /\ selections[p].cardId = "C01" =>
              board' = AddAt(board, selections[p].pos, Sign(p))
         /\ selections'[Opponent(p)] = selections[Opponent(p)]
         /\ hand' = hand
         /\ used'[Opponent(p)] = used[Opponent(p)]
         /\ currentTurn' = currentTurn
         /\ skipNextTurn' = skipNextTurn
         /\ timeBombs' = timeBombs
         /\ selections'[p] = NullSel
         /\ doubleActionFirstSelection'[p] = selections[p]
         /\ doubleActionActive' = doubleActionActive
         /\ state' = "selecting"]_vars

\* the first card of a multi-action was played on a cell the opponent's
\* pending Area card aims at too, and the opponent's selection is still pending
C30_Witness ==
  /\ last.op = "resolveTurn" /\ last.ret = "first"
  /\ \E p \in Players :
       /\ doubleActionActive[p] /\ ~doubleActionActive[Opponent(p)]
       /\ doubleActionRemaining[p] = DoubleActionPlays - 1
       /\ selections[p] = NullSel
       /\ doubleActionFirstSelection[p] # NullSel
       /\ selections[Opponent(p)] # NullSel
       /\ GetType(selections[Opponent(p)].cardId) = "color"
       /\ selections[Opponent(p)].pos = doubleActionFirstSelection[p].pos
       /\ board[doubleActionFirstSelection[p].pos] # 0

\* p plays S04 in a round that is resolved to its end, the opponent playing no
\* S05, and holds at most one Area card beside it
DegenerateS04(p) ==
  /\ RoundProcessed
  /\ ~skipNextTurn[p] /\ ~doubleActionActive[p]
  /\ Plays(p) /\ selections[p].cardId = "S04"
  /\ ~Jammed(p)
  /\ Cardinality(AreaCardsLeft(p)) <= 1

\* C31: when S04 resolves, not jammed, for a player whose unused hand holds at
\* most one Area card, it is the single-cell effect: multi-action stays
\* inactive with no play remaining and the player's skip flag is not set; the
\* target cell gains one step of the player's sign, clipped (alone on the
\* board when the opponent sits out, after the opponent's step when the
\* opponent plays C01, and before the delayed effects that are due).
C31_S04Degenerates ==
  [][\A p \in Players :
       DegenerateS04(p) =>
         /\ ~doubleActionActive'[p]
         /\ doubleActionRemaining'[p] = 0
         /\ ~skipNextTurn'[p]
         /\ doubleActionFirstSelection'[p] = NullSel
         /\ skipNextTurn[Opponent(p)] =>
              board' = ExplodeAll(AddAt(board, selections[p].pos, Sign(p)), DueNow)
         /\ (~skipNextTurn[Opponent(p)] /\ selections[Opponent(p)].cardId = "C01") =>
              board' = ExplodeAll(AddAt(AddAt(board, selections[Opponent(p)].pos,
                                              Sign(Opponent(p))),
                                        selections[p].pos, Sign(p)), DueNow)]_vars

\* S04 was played with one Area card left in the hand against a C01 on
\* another cell, and its target cell is now the player's
C31_Witness ==
  /\ last.op = "resolveTurn" /\ last.ret = "normal"
  /\ \E p \in Players :
       /\ last.sel[p].cardId = "S04"
       /\ last.sel[Opponent(p)].cardId = "C01"
       /\ last.sel[Opponent(p)].pos # last.sel[p].pos
       /\ Cardinality(AreaCardsLeft(p)) = 1
       /\ IsOwnedBy(board[last.sel[p].pos], p)
       /\ ~doubleActionActive[p] /\ doubleActionRemaining[p] = 0

\* every cell's stability negated
Negated(b) == [q \in DOMAIN b |-> -b[q]]

\* each player has played C01 and nothing else, on two different cells: x is
\* the cell player p played it on
PlayedOnlyC01At(p, x) ==
  /\ used[p] = {"C01"} /\ used[Opponent(p)] = {"C01"}
  /\ board[x] = Sign(p)
  /\ \E y \in Positions \ {x} :
       /\ board[y] = -Sign(p)
       /\ \A q \in Positions \ {x, y} : board[q] = 0

\* a normal round in which p plays S02 and the opponent plays S01 inside its
\* window
S02AgainstReversal(p) ==
  /\ ResolveStep /\ last'.ret = "normal"
  /\ selections[p].cardId = "S02"
  /\ selections[Opponent(p)].cardId = "S01"
  /\ currentTurn <= totalTurns - ReversalMargin

\* the board after the special phase of such a round when S02 adds one step
\* of p's sign on the cell anchor (the card of A acts first)
RepeatedOn(p, anchor) ==
  IF p = "A" THEN Negated(AddAt(board, anchor, Sign(p)))
  ELSE AddAt(Negated(board), anchor, Sign(p))

\* C32: S02, resolved for a player who has played an Area card in an earlier
\* round, applies the pattern and power of that card anchored at that card's
\* target position, not at its own target (here the earlier card is a C01,
\* the only card the player has played); only if the player has never played
\* an Area card does it change its own target cell by one step.
C32_RepeatAnchoredAtEarlierTarget ==
  [][\A p \in Players :
       S02AgainstReversal(p) =>
         /\ \A x \in Positions :
              PlayedOnlyC01At(p, x) => board' = RepeatedOn(p, x)
         /\ (lastColorCard[p] = NoCard /\ AreaCardsLeft(p) = {c \in hand[p] : GetType(c) = "color"}) =>
              board' = RepeatedOn(p, selections[p].pos)]_vars

\* a normal round in which p plays S10 on a cell of the board and the
\* opponent plays an Area card
S10AgainstArea(p) ==
  /\ ResolveStep /\ last'.ret = "normal"
  /\ selections[p].cardId = "S10"
  /\ selections[p].pos \in Positions
  /\ GetType(selections[Opponent(p)].cardId) = "color"

\* the cells the opponent's pending Area card affects
OpponentCells(p) ==
  SeqToSet(GetTargetPositions(selections[Opponent(p)].cardId, board,
                              selections[Opponent(p)].pos, Opponent(p)))

\* the miss penalty of p on a cell of stability v: two steps off an own cell,
\* one step towards the opponent on a neutral cell, one step back on an
\* opponent's cell
MissPenalty(p, v) ==
  IF IsOwnedBy(v, p) THEN ClipTo(v - 2 * Sign(p))
  ELSE IF v = 0 THEN -Sign(p)
  ELSE ClipTo(v + Sign(p))

\* C33: S10 rewards a correct prediction. When a player plays S10 on cell X in
\* a round where the opponent plays an Area card whose affected cells include
\* X, then after resolution X is the S10 player's at maximum strength; only
\* when X is not among the opponent's affected cells is the miss penalty
\* applied to X.
C33_TargetLockHit ==
  [][\A p \in Players :
       S10AgainstArea(p) =>
         IF selections[p].pos \in OpponentCells(p)
         THEN board'[selections[p].pos] = Sign(p) * MaxStability
         ELSE board'[selections[p].pos] = MissPenalty(p, board[selections[p].pos])]_vars

\* a normal round in which p plays S01
PlaysReversal(p) ==
  /\ ResolveStep /\ last'.ret = "normal"
  /\ selections[p].cardId = "S01"

\* the round is resolved inside the window of S01
InWindow == currentTurn <= totalTurns - ReversalMargin

\* the board with one unclipped step of p's sign on the cell pos
StepOn(b, pos, p) == IF pos \in DOMAIN b THEN [b EXCEPT ![pos] = @ + Sign(p)] ELSE b

\* C34: S01 resolved at a turn t <= totalTurns - 3 maps every cell's
\* stability s to -s: played against a C01 the board is the negation of the
\* board the C01 left, and played by both players in one round (applied
\* twice) the board is restored. Resolved at a turn t > totalTurns - 3 it
\* changes only its target cell, by +1 for A and -1 for B.
C34_ReversalInvolution ==
  [][\A p \in Players :
       PlaysReversal(p) =>
         LET q == Opponent(p)
             afterArea == AddAt(board, selections[q].pos, Sign(q))
         IN /\ (InWindow /\ selections[q].cardId = "C01") =>
                 board' = Negated(afterArea)
            /\ (InWindow /\ selections[q].cardId = "S01") => board' = board
            /\ (~InWindow /\ selections[q].cardId = "C01") =>
                 board' = StepOn(afterArea, selections[p].pos, p)
            /\ (~InWindow /\ selections[q].cardId = "S01") =>
                 board' = StepOn(StepOn(board, selections[p].pos, p),
                                 selections[q].pos, q)]_vars

\* both players played S01 inside its window on a board where each of them
\* owns a cell, and each of them still owns a cell
C34_Witness ==
  /\ last.op = "resolveTurn" /\ last.ret = "normal"
  /\ last.sel["A"].cardId = "S01" /\ last.sel["B"].cardId = "S01"
  /\ currentTurn - 1 <= totalTurns - ReversalMargin
  /\ \E x, y \in Positions : board[x] > 0 /\ board[y] < 0

\* ------------------------------------------------------- the miss penalty
\* Games in which a player can own more cells than the penalty takes: the
\* corner card and the row card cover the whole 2x2 grid while the opponent
\* plays S02 off the grid and plants a delayed effect, and the jammer S05
\* played against the opponent's Area card draws the penalty.
PenaltyDeals ==
  {[A |-> {"C06", "C13", "S05"}, B |-> {"S02", "S07", "C01"}],
   [A |-> {"S02", "S07", "C01"}, B |-> {"C06", "C13", "S05"}]}

\* two cells of the grid and one position outside it
PenaltyTargets == {<<0, 0>>, <<BoardSize - 1, BoardSize - 1>>, <<0, -1>>}

InitPenalty ==
  /\ board = EmptyBoard
  /\ \E d \in PenaltyDeals : hand = [p \in Players |-> d[p]]
  /\ used = [p \in Players |-> {}]
  /\ currentTurn = 1
  /\ state = "selecting"
  /\ selections = [p \in Players |-> NullSel]
  /\ timeBombs = <<>>
  /\ doubleActionActive = [p \in Players |-> FALSE]
  /\ doubleActionRemaining = [p \in Players |-> 0]
  /\ doubleActionFirstSelection = [p \in Players |-> NullSel]
  /\ skipNextTurn = [p \in Players |-> FALSE]
  /\ lastColorCard = [p \in Players |-> NoCard]
  /\ totalTurns = TotalTurns
  /\ cloned = NoBoard
  /\ last = Called("new", "void")

NextPenalty ==
  \/ \E p \in Players, pos \in PenaltyTargets :
       \E c \in hand[p] : SelectCard(p, [cardId |-> c, pos |-> pos])
  \/ ResolveTurn

SpecPenalty == InitPenalty /\ [][NextPenalty]_vars

\* the cells of board b that player p owns
OwnedIn(b, p) == {q \in DOMAIN b : IsOwnedBy(b[q], p)}

\* board c is board b with exactly the cells T moved one step toward neutral
\* from p's side
OneStepOff(b, c, p, T) ==
  \A q \in DOMAIN b : c[q] = IF q \in T THEN b[q] - Sign(p) ELSE b[q]

\* C35: the miss penalty applyPenalty(player, N), here drawn with N = 3 by a
\* jammer played against an Area card (which the jammer keeps off the
\* board, so the penalty falls on the board the round started with), reduces the magnitude of exactly
\* min(N, number of cells the player owns) distinct cells owned by that
\* player by 1 toward neutral, whichever cells are picked; no cell becomes
\* the opponent's by it and every cell the player does not own is unchanged.
C35_PenaltyOnOwnCells ==
  [][\A j \in Players :
       (ResolveStep /\ JammerMeetsArea(j) /\ DueNow = <<>>) =>
         LET b == board
             own == OwnedIn(b, j)
         IN /\ \E T \in SUBSET own :
                 /\ Cardinality(T) = Min2(PenaltyCount, Cardinality(own))
                 /\ OneStepOff(b, board', j, T)
            /\ \A q \in Positions :
                 /\ IsOwnedBy(b[q], j) => ~IsOwnedByEnemy(board'[q], j)
                 /\ ~IsOwnedBy(b[q], j) => board'[q] = b[q]]_vars

\* the jammer was played against an Area card by a player who owned one
\* cell more than the penalty takes: that cell is still the player's and the
\* others are neutral
C35_Witness ==
  /\ last.op = "resolveTurn" /\ last.ret = "normal"
  /\ \E j \in Players :
       /\ last.sel[j].cardId = "S05"
       /\ GetType(last.sel[Opponent(j)].cardId) = "color"
       /\ used[j] = {"C06", "C13", "S05"}
       /\ Cardinality(OwnedIn(board, j)) = 1
       /\ Cardinality({q \in Positions : board[q] = 0}) = PenaltyCount

\* player p is skipped or has a pending selection
ReadyNow(p) == skipNextTurn[p] \/ selections[p] # NullSel

\* the call plays the first card of p's multi-action
FirstSubPlay(p) ==
  /\ ResolveStep
  /\ doubleActionActive[p] /\ doubleActionRemaining[p] > 1
  /\ doubleActionRemaining'[p] = doubleActionRemaining[p] - 1

PlayCountdown == {<<0, DoubleActionPlays>>, <<2, 1>>, <<1, 0>>}

\* C37: multi-action state consistency. In every reachable state and for
\* each player, remainingPlays is 0, 1 or 2; multi-action is active iff
\* remainingPlays is 1 or 2; the recorded first selection is present iff
\* multi-action is active with remainingPlays = 1; remainingPlays only ever
\* changes 0 -> 2 -> 1 -> 0; and no player has multi-action active and the
\* skip flag set at the same time.
C37_MultiActionConsistent ==
  /\ [](\A p \in Players :
          /\ doubleActionRemaining[p] \in {0, 1, 2}
          /\ doubleActionActive[p] <=> doubleActionRemaining[p] \in {1, 2}
          /\ doubleActionFirstSelection[p] # NullSel <=>
               (doubleActionActive[p] /\ doubleActionRemaining[p] = 1)
          /\ ~(doubleActionActive[p] /\ skipNextTurn[p]))
  /\ [][\A p \in Players :
          doubleActionRemaining'[p] # doubleActionRemaining[p] =>
            <<doubleActionRemaining[p], doubleActionRemaining'[p]>> \in PlayCountdown]_vars

\* a multi-action has just been completed: its player went from one play
\* left to none, is skipped next and holds no first selection
C37_Witness ==
  /\ last.op = "resolveTurn" /\ last.ret = "completed"
  /\ \E p \in Players :
       /\ "S04" \in used[p]
       /\ last.sel[p] # NullSel
       /\ ~doubleActionActive[p] /\ doubleActionRemaining[p] = 0
       /\ skipNextTurn[p]
       /\ doubleActionFirstSelection[p] = NullSel

\* the pending selection of p names a card p holds and has not used
SelectionLive(p) ==
  selections[p] # NullSel =>
    (selections[p].cardId \in hand[p] /\ selections[p].cardId \notin used[p])

\* the last resolveTurn returned early because a selected card was missing
TookMissingReturn ==
  last.op \in {"resolveTurn", "resolvePhase", "checkBothDecided"} /\ last.ret = "missing"

\* C38: whenever the phase is Selecting, every pending selection names a card
\* that is in that player's hand and not yet used (a selection never outlives
\* the consumption of its card), and resolveTurn never takes its
\* 'card missing' early return.
C38_SelectionsNameUnusedCards ==
  /\ state = "selecting" => \A p \in Players : SelectionLive(p)
  /\ ~TookMissingReturn

\* --------------------------------------------- selectCard and resolveTurn
\* The engine driven by nothing but selectCard and resolveTurn calls, in any
\* order.
NextDuel ==
  \/ \E p \in Players, sel \in Selections : SelectCard(p, sel)
  \/ ResolveTurn

SpecDuel == Init /\ [][NextDuel]_vars

\* the Area cards player p has played
AreaPlayed(p) == {c \in used[p] : GetType(c) = "color"}

\* both players played S04 in the first round with two Area cards in hand,
\* and the round after it is being played
AfterJointEntry ==
  /\ currentTurn = 2
  /\ \A p \in Players : "S04" \in used[p] /\ Cardinality(AreaCardsLeft(p) \cup AreaPlayed(p)) >= 2

\* C39: if both players enter multi-action in the same round, then in the
\* following round, however the selectCard and resolveTurn calls interleave,
\* each player plays exactly two Area cards, the turn number advances exactly
\* once, both players end with multi-action inactive, and both skip flags
\* are set for the round after.
C39_JointMultiAction ==
  /\ [](AfterJointEntry =>
          \A p \in Players :
            /\ doubleActionActive[p] \/ skipNextTurn[p]
            /\ Cardinality(AreaPlayed(p)) + doubleActionRemaining[p] = DoubleActionPlays)
  /\ [][(AfterJointEntry /\ currentTurn' # currentTurn) =>
          /\ currentTurn' = currentTurn + 1
          /\ \A p \in Players :
               /\ Cardinality(AreaPlayed(p)') = DoubleActionPlays
               /\ ~doubleActionActive'[p]
               /\ doubleActionRemaining'[p] = 0
               /\ skipNextTurn'[p]]_vars

\* the round after a joint entry has been concluded: each player has played
\* two Area cards, and both are skipped in the round that has begun
C39_Witness ==
  /\ last.op = "resolveTurn" /\ last.ret = "completed"
  /\ currentTurn = 3
  /\ \A p \in Players :
       /\ "S04" \in used[p]
       /\ Cardinality(AreaPlayed(p)) = DoubleActionPlays
       /\ ~doubleActionActive[p] /\ skipNextTurn[p]

\* what the own applyEffect of p's pending card makes of the board
OwnEffect(p) == ApplyEffect(selections[p].cardId, board, selections[p].pos, p)

\* p plays an Area card in a normal round against a delayed effect that is
\* planted in this round: the opponent's card touches no cell, and no
\* delayed effect is due
AreaAgainstIdle(p) ==
  /\ ResolveStep /\ last'.ret = "normal"
  /\ NormalRoundOf({"color", "special"}, {"color", "special"})
  /\ GetType(selections[p].cardId) = "color"
  /\ selections[Opponent(p)].cardId = "S07"
  /\ DueNow = <<>>

\* p plays an Area card alone while the opponent is skipped, and no delayed
\* effect is due
AreaSolo(p) ==
  /\ ResolveStep /\ last'.ret = "solo"
  /\ skipNextTurn[Opponent(p)] /\ ~skipNextTurn[p]
  /\ GetType(selections[p].cardId) = "color"
  /\ DueNow = <<>>

\* p plays an Area card as a sub-play of a multi-action, and the call plays
\* no card of the opponent
AreaSubPlay(p) ==
  /\ ResolveStep /\ last'.ret \in {"first", "completed"}
  /\ doubleActionActive[p] /\ ~skipNextTurn[p]
  /\ doubleActionRemaining'[p] = doubleActionRemaining[p] - 1
  /\ used'[Opponent(p)] = used[Opponent(p)]

\* C40: an Area card's effect is the same on every resolution path. Resolved
\* in a normal round through the simultaneous phase against an opponent card
\* that touches no cell, through the skip path, or as a multi-action
\* sub-play, it leaves the board its own applyEffect makes of the board
\* before the call, for every Area card, C09 included.
C40_AreaEffectPathIndependent ==
  [][\A p \in Players :
       (AreaAgainstIdle(p) \/ AreaSolo(p) \/ AreaSubPlay(p)) => board' = OwnEffect(p)]_vars
====
